---------------------------- MODULE Spec2Model ----------------------------
(***************************************************************************)
(* State-machine model of the Copilot token lifecycle of copilot-api-proxy *)
(* (pkg/copilot): ExchangeGitHubToken, TokenManager (NewTokenManager,      *)
(* refresh, refreshTokenLoop, GetToken, Close) and the GetToken call that  *)
(* Client.ForwardRequest makes for every forwarded request; and of the     *)
(* request path of the proxy: the handlers of internal/server, the         *)
(* forwarder Client.ForwardRequest and the relay StreamResponse.           *)
(*                                                                         *)
(* Time is in seconds.  The origin of the clock (now = 0) is the instant   *)
(* of the time.Now() call of the constructor's refresh: nothing reads the  *)
(* clock before it.                                                        *)
(***************************************************************************)
EXTENDS Integers, FiniteSets, Sequences, TLC

(***************************************************************************)
(* Bounds of the model.                                                    *)
(***************************************************************************)
\* number of concurrent GetToken callers (forwarded requests)
NReaders == 1
\* the clock stops advancing at MaxTime
MaxTime == 90
\* the clock advances in steps of TickStep seconds
TickStep == 30
\* longest upstream response body, in bytes
MaxBody == 3
\* size of the relay's copy buffer, in bytes (32 KiB in the program)
BufSize == 2
\* the poll requests PollAccessToken is followed for
MaxPolls == 3

(***************************************************************************)
(* Program constants.                                                      *)
(***************************************************************************)
\* refresh 60 seconds before the official refresh_in time
RefreshBuffer == 60
\* http.StatusOK
StatusOK == 200
\* the zero time.Time of a TokenManager that has not refreshed yet
\* (far in the past of every clock value of the model)
ZeroTime == -1000
\* lifetime of a Copilot token as documented ("expires in 30 minutes")
TokenLifetime == 1800
\* http.StatusBadGateway
StatusBadGateway == 502
\* http.StatusInternalServerError
StatusInternalServerError == 500
\* the timeout runServer gives the client of the upstream API, in seconds
ClientTimeout == 30
\* the timeout, in seconds, of the context Server.Start hands to Shutdown
ShutdownTimeout == 5

(***************************************************************************)
(* Data.                                                                   *)
(***************************************************************************)
Readers == 1..NReaders
\* the two callers of refresh: NewTokenManager and refreshTokenLoop
Callers == {"ctor", "loop"}

\* token strings the exchange endpoint may deliver; "" is the empty string
\* (a token field that is empty or missing in the JSON body)
TokenValues == {"", "a", "bb"}
\* Go's len of a token string
StrLen(s) == CASE s = "" -> 0 [] s = "a" -> 1 [] s = "bb" -> 2
\* refresh_in values of the JSON body; 0 is a missing field
RefreshInValues == {0, 60, 120}
\* expires_at of the JSON body, as seconds after the reply: the token
\* expires when refresh_in has elapsed, or after the documented lifetime
ExpiresInValues == {120, TokenLifetime}

\* A Go string value is a two-word header: data pointer and length.
\* `data` names the backing bytes by the string they belong to.
GoString(s) == [data |-> s, len |-> StrLen(s)]
\* the header words form one complete string value
Complete(h) == h.len = StrLen(h.data)
NoValue == [data |-> "none", len |-> -1]
NoResp == [Token |-> "none", ExpiresAt |-> 0, RefreshIn |-> 0]

\* what the network answers to the GET of ExchangeGitHubToken at time t:
\* a transport error, a non-200 status, a 200 with an undecodable body,
\* or a 200 with a JSON body {token, expires_at, refresh_in}
Replies(t) ==
    { [transportErr |-> TRUE, status |-> 0, decodable |-> FALSE, body |-> NoResp],
      [transportErr |-> FALSE, status |-> 500, decodable |-> TRUE, body |-> NoResp],
      [transportErr |-> FALSE, status |-> StatusOK, decodable |-> FALSE, body |-> NoResp] }
    \cup
    { [transportErr |-> FALSE, status |-> StatusOK, decodable |-> TRUE,
       body |-> [Token |-> tok, ExpiresAt |-> t + life, RefreshIn |-> ri]] :
         tok \in TokenValues, ri \in RefreshInValues, life \in ExpiresInValues }

\* mutant of ExchangeGitHubToken: the status of the answer is not looked at
ExchangeGitHubTokenAnyStatus(reply) ==
    IF reply.transportErr
      THEN [err |-> "execute", resp |-> NoResp]
    ELSE IF ~reply.decodable
      THEN [err |-> "decode", resp |-> NoResp]
    ELSE [err |-> "nil", resp |-> reply.body]

\* ExchangeGitHubToken: one request, the three error returns, else the
\* decoded ExchangeTokenResponse (no validation of its fields)
ExchangeGitHubToken(reply) ==
    IF reply.transportErr
      THEN [err |-> "execute", resp |-> NoResp]
    ELSE IF reply.status # StatusOK
      THEN [err |-> "status", resp |-> NoResp]
    ELSE IF ~reply.decodable
      THEN [err |-> "decode", resp |-> NoResp]
    ELSE [err |-> "nil", resp |-> reply.body]

(***************************************************************************)
(* Data of the request path.  A string that the program takes apart or     *)
(* puts together (a URL, a path) is a sequence of atoms: a whole path such *)
(* as "/x", or a single character that the URL syntax gives a meaning      *)
(* ("?", "#"), or an invalid percent escape ("%zz").  The concatenation of *)
(* strings is the concatenation of sequences.                              *)
(***************************************************************************)
copilotAPIHost == "api.individual.githubcopilot.com"

\* r.URL.Path values the server hands to a handler (the decoded path of the
\* request line: "/x%3Fy" arrives as /x?y, "/x%23y" as /x#y, "/x%25zz" as
\* /x%zz)
InboundPaths ==
    { <<"/v1/chat/completions">>, <<"/chat/completions">>,
      <<"/v1/models">>, <<"/models">>, <<"/x">>,
      <<"/x", "?", "y">>, <<"/x", "#", "y">>, <<"/x", "%zz">> }
RawQueries == {"", "q=1"}
Methods == {"GET", "POST"}

\* An http.Header: a function from the keys present to the sequence of the
\* values of the key.
EmptyHeader == [k \in {} |-> <<>>]
\* the headers of inbound requests; the server delivers canonical keys
InboundHeaders ==
    { EmptyHeader,
      [k \in {"Authorization", "Accept"} |->
          IF k = "Authorization" THEN <<"Bearer client">> ELSE <<"a/b", "c/d">>],
      [k \in {"Authorization", "Editor-Version", "User-Agent", "X-Custom"} |->
          CASE k = "Authorization" -> <<"Basic c1", "Bearer c2">>
            [] k = "Editor-Version" -> <<"emacs/1">>
            [] k = "User-Agent" -> <<"curl/8">>
            [] k = "X-Custom" -> <<"1", "2">>] }

\* the inbound requests: method, URL, headers, and whether reading the body
\* fails
Requests ==
    [Method : Methods,
     URL : [Path : InboundPaths, RawQuery : RawQueries],
     Header : InboundHeaders,
     BodyErr : BOOLEAN]
NoRequest ==
    [Method |-> "none", URL |-> [Path |-> <<>>, RawQuery |-> ""],
     Header |-> EmptyHeader, BodyErr |-> FALSE]

\* textproto.CanonicalMIMEHeaderKey on the keys the program uses: the first
\* letter and every letter after a hyphen in upper case, the rest in lower
\* case
CanonicalMIMEHeaderKey(k) ==
    CASE k = "editor-version" -> "Editor-Version"
      [] k = "editor-plugin-version" -> "Editor-Plugin-Version"
      [] k = "user-agent" -> "User-Agent"
      [] k = "x-github-api-version" -> "X-Github-Api-Version"
      [] k = "copilot-integration-id" -> "Copilot-Integration-Id"
      [] k = "openai-intent" -> "Openai-Intent"
      [] k = "x-vscode-user-agent-library-version" ->
             "X-Vscode-User-Agent-Library-Version"
      [] OTHER -> k

\* Header.Set(key, value): the canonical key holds the single value
HeaderSet(h, key, value) ==
    LET ck == CanonicalMIMEHeaderKey(key) IN
      [k \in DOMAIN h \cup {ck} |-> IF k = ck THEN <<value>> ELSE h[k]]
\* Header.Add(key, value): the value is appended to those of the key
HeaderAdd(h, key, value) ==
    LET ck == CanonicalMIMEHeaderKey(key) IN
      [k \in DOMAIN h \cup {ck} |->
          IF k = ck
            THEN (IF ck \in DOMAIN h THEN h[ck] ELSE <<>>) \o <<value>>
            ELSE h[k]]
\* Header.Del(key)
HeaderDel(h, key) ==
    [k \in DOMAIN h \ {CanonicalMIMEHeaderKey(key)} |-> h[k]]
\* Header.Clone(): a copy that shares nothing with the original
HeaderClone(h) == [k \in DOMAIN h |-> h[k]]

\* the string a Go string header denotes
StringOf(h) == IF Complete(h) THEN h.data ELSE "torn"

\* the fixed headers ForwardRequest sets, in the order of the source
FixedHeaders ==
    << <<"editor-version", "vscode/1.98.1">>,
       <<"editor-plugin-version", "copilot-chat/0.26.7">>,
       <<"user-agent", "GitHubCopilotChat/0.26.7">>,
       <<"x-github-api-version", "2025-04-01">>,
       <<"copilot-integration-id", "vscode-chat">>,
       <<"openai-intent", "conversation-panel">>,
       <<"x-vscode-user-agent-library-version", "electron-fetch">> >>

RECURSIVE SetAll(_, _)
\* the Header.Set calls of a list of (key, value) pairs, first to last
SetAll(h, pairs) ==
    IF pairs = <<>> THEN h
    ELSE SetAll(HeaderSet(h, Head(pairs)[1], Head(pairs)[2]), Tail(pairs))

\* index of the first occurrence of atom c in s, or 0
IndexOf(s, c) ==
    IF \E i \in 1..Len(s) : s[i] = c
      THEN CHOOSE i \in 1..Len(s) : s[i] = c /\ \A j \in 1..(i-1) : s[j] # c
      ELSE 0
\* s up to the first c (all of s when c does not occur), and s after it
Before(s, c) == IF IndexOf(s, c) = 0 THEN s ELSE SubSeq(s, 1, IndexOf(s, c) - 1)
After(s, c) == IF IndexOf(s, c) = 0 THEN <<>> ELSE SubSeq(s, IndexOf(s, c) + 1, Len(s))

\* url.Parse of "https://" + host + rest, as http.NewRequestWithContext
\* calls it: the fragment is cut off at the first "#", the query at the
\* first "?" of what is left, and the path is unescaped, which fails on an
\* invalid percent escape
ParseURL(s) ==
    LET rest == SubSeq(s, 3, Len(s))
        noFrag == Before(rest, "#")
        path == Before(noFrag, "?")
        query == After(noFrag, "?")
    IN IF \E i \in 1..Len(path) : path[i] = "%zz"
         THEN [err |-> "invalid URL escape",
               URL |-> [Scheme |-> "", Host |-> "", Path |-> <<>>, RawQuery |-> <<>>]]
         ELSE [err |-> "nil",
               URL |-> [Scheme |-> IF s[1] = "https://" THEN "https" ELSE "",
                        Host |-> s[2], Path |-> path, RawQuery |-> query]]

NoUpstreamRequest ==
    [Method |-> "none",
     URL |-> [Scheme |-> "", Host |-> "", Path |-> <<>>, RawQuery |-> <<>>],
     Host |-> "", Header |-> EmptyHeader]

\* lines 32-49 of ForwardRequest: the target URL with the alias rewrite,
\* http.NewRequestWithContext, the clone of the inbound headers and the
\* Host field
ForwardBuild(incomingReq) ==
    LET path == IF incomingReq.URL.Path = <<"/v1/chat/completions">>
                  THEN <<"/chat/completions">>
                  ELSE incomingReq.URL.Path
        targetURL == <<"https://", copilotAPIHost>> \o path
        parsed == ParseURL(targetURL)
    IN IF parsed.err # "nil"
         THEN [err |-> parsed.err, req |-> NoUpstreamRequest]
         ELSE [err |-> "nil",
               req |-> [Method |-> incomingReq.Method,
                        URL |-> parsed.URL,
                        Host |-> copilotAPIHost,
                        Header |-> HeaderClone(incomingReq.Header)]]

RECURSIVE AddAll(_, _)
\* the Header.Add calls of a list of (key, value) pairs, first to last
AddAll(h, pairs) ==
    IF pairs = <<>> THEN h
    ELSE AddAll(HeaderAdd(h, Head(pairs)[1], Head(pairs)[2]), Tail(pairs))

\* mutant of ForwardHeaders: the headers are added to those of the client
\* instead of replacing them
ForwardHeadersAdded(h, token) ==
    AddAll(HeaderAdd(h, "Authorization", "Bearer " \o token), FixedHeaders)

\* lines 51-58 of ForwardRequest: the Authorization header with the token
\* GetToken returned, and the fixed client-identification headers
ForwardHeaders(h, token) ==
    SetAll(HeaderSet(h, "Authorization", "Bearer " \o token), FixedHeaders)

\* mutant of Route: only /models is registered for modelsHandler
RouteModelsOnly(path) ==
    IF path = <<"/models">> THEN "models" ELSE "proxy"

\* http.ServeMux with the patterns of registerRoutes: the two exact paths
\* go to modelsHandler, every other path to proxyHandler
Route(path) ==
    IF path \in {<<"/v1/models">>, <<"/models">>} THEN "models" ELSE "proxy"

\* bytes of response bodies
Bytes == {"x", "y"}
RECURSIVE SeqsUpTo(_, _)
\* the sequences over S of length at most n
SeqsUpTo(S, n) ==
    IF n = 0 THEN {<<>>}
    ELSE LET shorter == SeqsUpTo(S, n - 1) IN
           shorter \cup {Append(q, x) : q \in {t \in shorter : Len(t) = n - 1}, x \in S}

\* headers of upstream responses
ResponseHeaders ==
    { EmptyHeader,
      [k \in {"Content-Type", "Set-Cookie"} |->
          IF k = "Content-Type" THEN <<"text/event-stream">>
          ELSE <<"a=1", "b=2">>] }
\* status codes of upstream responses: 200, another 2xx, two error codes
StatusCodes == {StatusOK, 201, 404, 500}

\* an upstream body: the bytes it delivers, how many of them have been
\* read, and how it ends: with io.EOF or with a read error
Bodies == [data : SeqsUpTo(Bytes, MaxBody), pos : {0}, end : {"EOF", "err"}]
NoResponse ==
    [StatusCode |-> 0, Header |-> EmptyHeader,
     Body |-> [data |-> <<>>, pos |-> 0, end |-> "EOF"]]
\* the bytes of a body that are still to be read
Unread(body) == SubSeq(body.data, body.pos + 1, Len(body.data))

\* what httpClient.Do returns to ForwardRequest: an error (network,
\* connection, timeout), or the upstream response
Outcomes ==
    { [err |-> "do", resp |-> NoResponse] }
    \cup
    { [err |-> "nil", resp |-> [StatusCode |-> sc, Header |-> h, Body |-> b]] :
         sc \in StatusCodes, h \in ResponseHeaders, b \in Bodies }
NoOutcome == [err |-> "none", resp |-> NoResponse]

\* a fresh http.ResponseWriter: whether it implements http.Flusher, the
\* header map of w.Header(), the status and the header map sent by
\* WriteHeader, what has been done to the body since (writes of bytes and
\* flushes), and whether a write has failed
NewResponseWriter(flusher) ==
    [flusher |-> flusher, header |-> EmptyHeader, wroteHeader |-> FALSE,
     status |-> 0, sent |-> EmptyHeader, events |-> <<>>, broken |-> FALSE]
NoWriter == NewResponseWriter(FALSE)

\* w.WriteHeader(code): the first call sends the status and the headers
WriteHeader(rw, code) ==
    IF rw.wroteHeader THEN rw
    ELSE [rw EXCEPT !.wroteHeader = TRUE, !.status = code, !.sent = rw.header]
\* w.Write(bytes): an implicit WriteHeader(200) when none was made
Write(rw, bytes) ==
    LET hw == WriteHeader(rw, StatusOK) IN
      [hw EXCEPT !.events = Append(hw.events, [op |-> "write", bytes |-> bytes])]
\* flusher.Flush()
Flush(rw) ==
    LET hw == WriteHeader(rw, StatusOK) IN
      [hw EXCEPT !.events = Append(hw.events, [op |-> "flush", bytes |-> <<>>])]
\* http.Error(w, msg, code)
HttpError(rw, msg, code) ==
    LET h == HeaderSet(HeaderSet(HeaderDel(rw.header, "Content-Length"),
                                 "Content-Type", "text/plain; charset=utf-8"),
                       "X-Content-Type-Options", "nosniff")
    IN Write(WriteHeader([rw EXCEPT !.header = h], code), <<msg, "\n">>)

RECURSIVE AddValues(_, _, _)
\* the inner loop of StreamResponse: w.Header().Add(key, value) for the
\* values of one key, in their order
AddValues(h, key, values) ==
    IF values = <<>> THEN h
    ELSE AddValues(HeaderAdd(h, key, Head(values)), key, Tail(values))
RECURSIVE AddKeys(_, _, _)
\* the outer loop of StreamResponse over the keys of the upstream header
\* (in any order: the keys are distinct, so the result does not depend on
\* it)
AddKeys(h, src, keys) ==
    IF keys = {} THEN h
    ELSE LET key == CHOOSE k \in keys : TRUE IN
           AddKeys(AddValues(h, key, src[key]), src, keys \ {key})
\* lines 13-18 of StreamResponse
CopyHeaders(rw, upstreamResp) ==
    WriteHeader([rw EXCEPT !.header =
                    AddKeys(rw.header, upstreamResp.Header,
                            DOMAIN upstreamResp.Header)],
                upstreamResp.StatusCode)

RECURSIVE Written(_)
\* the bytes written to a response writer, in order
Written(events) ==
    IF events = <<>> THEN <<>>
    ELSE (IF Head(events).op = "write" THEN Head(events).bytes ELSE <<>>)
           \o Written(Tail(events))

\* deviceCode.Interval, in seconds
IntervalValues == {0, 5}
\* the values of the error field of AccessTokenResponse: absent, the three
\* the code names, and another one
PollErrors ==
    {"", "authorization_pending", "slow_down", "expired_token", "access_denied"}
\* the values of the access_token field: absent, or a token
AccessTokens == {"", "gho_1"}
NoAccessTokenResp == [Error |-> "", AccessToken |-> ""]
\* what the network answers to a poll request: a transport error, a body
\* that cannot be decoded, or a JSON body {error, access_token} with an
\* error, with a token, or with neither
PollAnswers ==
    { [transportErr |-> TRUE, decodable |-> FALSE, body |-> NoAccessTokenResp],
      [transportErr |-> FALSE, decodable |-> FALSE, body |-> NoAccessTokenResp] }
    \cup
    { [transportErr |-> FALSE, decodable |-> TRUE, body |-> b] :
         b \in {c \in [Error : PollErrors, AccessToken : AccessTokens] :
                   c.Error # "" => c.AccessToken = ""} }
\* the poll request is in flight
NoAnswer == [transportErr |-> FALSE, decodable |-> FALSE,
             body |-> [Error |-> "none", AccessToken |-> "none"]]

\* mutant of PollDecision: expired_token is one more error to poll through
PollDecisionNoExpiry(answer) ==
    IF answer.transportErr \/ ~answer.decodable THEN "continue"
    ELSE IF answer.body.Error # "" THEN "continue"
    ELSE IF answer.body.AccessToken # "" THEN "success"
    ELSE "continue"

\* what one iteration of the loop of PollAccessToken does with the answer
\* to its request: "continue" (the next iteration), "expired" (return the
\* error "device code expired") or "success" (return the access token)
PollDecision(answer) ==
    IF answer.transportErr \/ ~answer.decodable THEN "continue"
    ELSE IF answer.body.Error # ""
      THEN (IF answer.body.Error = "authorization_pending" THEN "continue"
            ELSE IF answer.body.Error = "expired_token" THEN "expired"
            ELSE "continue")
    ELSE IF answer.body.AccessToken # "" THEN "success"
    ELSE "continue"

VARIABLES
    mainPc,        \* runServer: "start", "constructing", "failed", "serving",
                   \* "panicked"
    refPc,         \* refPc[who]: position of who's call of refresh
    resp,          \* resp[who]: the local resp of who's call of refresh
    copilotToken,  \* tm.copilotToken, a Go string header
    refreshesAt,   \* tm.refreshesAt
    writer,        \* holder of tm.mu's exclusive lock, or "none"
    stopClosed,    \* tm.stopCh is closed
    loopPc,        \* refreshTokenLoop: "none", "top", "select", "refresh", "stopped"
    duration,      \* the loop's local duration (0 outside the select)
    timerAt,       \* clock value at which time.After(duration) fires
    loopErr,       \* err of the loop's last completed refresh: "nil" or
                   \* "err", and "none" before the first one
    now,           \* the clock
    rpc,           \* rpc[r]: position of reader r in GetToken
    got,           \* got[r]: the header GetToken is returning / has returned
    hpc,           \* position of the request handler goroutine: "idle",
                   \* "getToken", "do", "returned", "read", "write", "flush",
                   \* "copy", "done"
    handler,       \* the handler the mux chose: "models", "proxy" ("none")
    incomingReq,   \* the inbound request r as the handler passes it on
    upstreamReq,   \* the upstream request ForwardRequest builds
    result,        \* what ForwardRequest returned: error or upstream
                   \* response, whose Body holds what is still unread
    local,         \* StreamResponse's buf[:n] and err of the last Read
    respWriter,    \* w, the http.ResponseWriter of the inbound request
    ctx,           \* the context of the upstream request: r.Context(), and
                   \* the deadline httpClient.Do sets for Client.Timeout
    parked,        \* the state of a second handler goroutine, which is not
                   \* running at the moment
    poll,          \* the call of PollAccessToken of the auth command
    boot,          \* the process from main to the command it runs: its
                   \* arguments and environment, the token file, and what
                   \* config.Load returned
    srv            \* the call of Server.Start: the http.Server, the
                   \* context runServer passes in, and the shutdown goroutine

vars == <<mainPc, refPc, resp, copilotToken, refreshesAt, writer, stopClosed,
          loopPc, duration, timerAt, loopErr, now, rpc, got,
          hpc, handler, incomingReq, upstreamReq, result, local, respWriter,
          ctx, parked, poll, boot, srv>>

tmVars == <<copilotToken, refreshesAt>>
readerVars == <<rpc, got>>
loopLocals == <<duration, timerAt>>
\* the variables of the request path
proxyVars == <<hpc, handler, incomingReq, upstreamReq, result, local, respWriter,
               ctx, parked>>
\* the variables of the token manager and of runServer
managerVars == <<mainPc, refPc, resp, copilotToken, refreshesAt, writer,
                 stopClosed, loopPc, duration, timerAt, loopErr, now>>
\* the variables of the start of the process and of Server.Start
procVars == <<boot, srv>>
NoLocal == [buf |-> <<>>, err |-> "nil"]
\* no deadline: a time the clock does not reach
NoDeadline == 1000000
\* the context of an inbound request that has just arrived
NewContext == [cancelled |-> FALSE, deadline |-> NoDeadline]
\* PollAccessToken has not been called
NoPoll ==
    [pc |-> "idle", interval |-> 0, armedAt |-> 0, timerAt |-> 0,
     cancelled |-> FALSE,
     log |-> <<>>, ret |-> [token |-> "", err |-> "none"]]
\* no configuration: config.Load has not returned one
NoConfig == [Port |-> "none", GitHubToken |-> "none"]
\* the start of the process is not followed: the command is under way
NoBoot ==
    [pc |-> "none", command |-> "none",
     env |-> [PROXY_PORT |-> "", PORT |-> "", GITHUB_TOKEN |-> "",
              COPILOT_TOKEN |-> ""],
     home |-> TRUE, file |-> "absent", file0 |-> "absent",
     cfg |-> NoConfig, interval |-> 0, exit |-> "none"]
\* Server.Start has not been called (or its call is not followed): pc is
\* the position of Start ("none", "called", "listening", "returned"), ret
\* what it returned, ctxDone whether its context is cancelled, shutdown the
\* state of httpServer.Shutdown in the goroutine ("none", "running",
\* "done") and deadline the deadline of the context Shutdown is called with
NoServer ==
    [pc |-> "none", ret |-> "none", ctxDone |-> FALSE,
     shutdown |-> "none", deadline |-> NoDeadline]
\* a handler goroutine that has no request
IdleHandler ==
    [hpc |-> "idle", handler |-> "none", incomingReq |-> NoRequest,
     upstreamReq |-> NoUpstreamRequest, result |-> NoOutcome,
     local |-> NoLocal, respWriter |-> NoWriter, ctx |-> NewContext,
     rpc |-> "idle", got |-> NoValue]

\* readers holding tm.mu's shared lock
RLockHeld == {r \in Readers : rpc[r] = "half"}
\* a refresh blocked in tm.mu.Lock()
WriterWaiting == \E w \in Callers : refPc[w] = "lock"
\* exchanges in flight
InFlight == {w \in Callers : refPc[w] = "exchanging"}

Init ==
    /\ mainPc = "start"
    /\ refPc = [w \in Callers |-> "idle"]
    /\ resp = [w \in Callers |-> NoResp]
    /\ copilotToken = GoString("")
    /\ refreshesAt = ZeroTime
    /\ writer = "none"
    /\ stopClosed = FALSE
    /\ loopPc = "none"
    /\ duration = 0
    /\ timerAt = 0
    /\ loopErr = "none"
    /\ now = 0
    /\ rpc = [r \in Readers |-> "idle"]
    /\ got = [r \in Readers |-> NoValue]
    /\ hpc = "idle"
    /\ handler = "none"
    /\ incomingReq = NoRequest
    /\ upstreamReq = NoUpstreamRequest
    /\ result = NoOutcome
    /\ local = NoLocal
    /\ respWriter = NoWriter
    /\ ctx = NewContext
    /\ parked = IdleHandler
    /\ poll = NoPoll
    /\ boot = NoBoot
    /\ srv = NoServer

(***************************************************************************)
(* NewTokenManager                                                         *)
(***************************************************************************)
\* mutant of NewTokenManager: the loop goroutine is started before the
\* initial refresh instead of after it
NewTokenManagerLoopFirst ==
    /\ mainPc = "start"
    /\ mainPc' = "constructing"
    /\ loopPc' = "top"
    /\ refPc' = [refPc EXCEPT !["ctor"] = "exchanging"]
    /\ UNCHANGED <<resp, tmVars, writer, stopClosed, loopLocals, loopErr, now,
                   readerVars,
                   proxyVars, poll, procVars>>

\* runServer calls NewTokenManager, which builds the manager and calls
\* refresh synchronously: the initial exchange goes out
NewTokenManager ==
    /\ mainPc = "start"
    /\ mainPc' = "constructing"
    /\ refPc' = [refPc EXCEPT !["ctor"] = "exchanging"]
    /\ UNCHANGED <<resp, tmVars, writer, stopClosed, loopPc, loopLocals,
                   loopErr, now, readerVars,
                   proxyVars, poll, procVars>>

\* mutant of RefreshFailed: NewTokenManager logs the error of the initial
\* refresh and carries on
RefreshFailedIgnored(who) ==
    /\ UNCHANGED tmVars
    /\ IF who = "ctor"
         THEN /\ mainPc' = "serving"
              /\ loopPc' = "top"
              /\ UNCHANGED loopErr
         ELSE /\ loopPc' = "top"
              /\ loopErr' = "err"
              /\ UNCHANGED mainPc

\* mutant of RefreshFailed: a failed refresh invalidates the stored token
RefreshFailedClearsToken(who) ==
    /\ copilotToken' = GoString("")
    /\ UNCHANGED refreshesAt
    /\ IF who = "ctor"
         THEN /\ mainPc' = "failed"
              /\ UNCHANGED <<loopPc, loopErr>>
         ELSE /\ loopPc' = "top"
              /\ loopErr' = "err"
              /\ UNCHANGED mainPc

\* mutant of RefreshFailed: the loop returns when a refresh fails
RefreshFailedStopsLoop(who) ==
    /\ UNCHANGED tmVars
    /\ IF who = "ctor"
         THEN /\ mainPc' = "failed"
              /\ UNCHANGED <<loopPc, loopErr>>
         ELSE /\ loopPc' = "stopped"
              /\ loopErr' = "err"
              /\ UNCHANGED mainPc

\* refresh returns err before it has touched the manager, and its caller
\* handles the error: NewTokenManager returns (nil, err) and runServer
\* exits; the loop logs the error and goes round
RefreshFailed(who) ==
    /\ UNCHANGED tmVars
    /\ IF who = "ctor"
         THEN /\ mainPc' = "failed"
              /\ UNCHANGED <<loopPc, loopErr>>
         ELSE /\ loopPc' = "top"
              /\ loopErr' = "err"
              /\ UNCHANGED mainPc

\* what the caller of refresh does when refresh returns nil:
\* NewTokenManager starts the loop goroutine and returns the manager, with
\* which runServer builds the client and starts the server; the loop goes
\* round
RefreshSucceeded(who) ==
    IF who = "ctor"
      THEN /\ mainPc' = "serving"
           /\ loopPc' = "top"
           /\ UNCHANGED loopErr
      ELSE /\ loopPc' = "top"
           /\ loopErr' = "nil"
           /\ UNCHANGED mainPc

(***************************************************************************)
(* TokenManager.refresh                                                    *)
(***************************************************************************)
\* ExchangeGitHubToken returns: on an error refresh returns it and nothing
\* of the manager is touched; else refresh goes on to tm.mu.Lock()
ExchangeReturn(who, reply) ==
    /\ refPc[who] = "exchanging"
    /\ LET r == ExchangeGitHubToken(reply) IN
         IF r.err # "nil"
           THEN /\ refPc' = [refPc EXCEPT ![who] = "idle"]
                /\ RefreshFailed(who)
                /\ UNCHANGED resp
           ELSE /\ refPc' = [refPc EXCEPT ![who] = "lock"]
                /\ resp' = [resp EXCEPT ![who] = r.resp]
                /\ UNCHANGED <<mainPc, loopPc, loopErr, tmVars>>
    /\ UNCHANGED <<writer, stopClosed, loopLocals, now, readerVars,
                   proxyVars, poll, procVars>>

\* tm.mu.Lock() returns once the readers and the writer have released;
\* then tm.copilotToken = resp.Token stores the first word of the string
\* header
RefreshLock(who) ==
    /\ refPc[who] = "lock"
    /\ writer = "none"
    /\ RLockHeld = {}
    /\ writer' = who
    /\ copilotToken' = [copilotToken EXCEPT !.data = resp[who].Token]
    /\ refPc' = [refPc EXCEPT ![who] = "storeLen"]
    /\ UNCHANGED <<mainPc, resp, refreshesAt, stopClosed, loopPc, loopLocals,
                   loopErr, now, readerVars,
                   proxyVars, poll, procVars>>

\* mutant of StoreTokenLen: the refresh is scheduled at refresh_in, without
\* the 60 second buffer
StoreTokenLenNoBuffer(who) ==
    /\ refPc[who] = "storeLen"
    /\ copilotToken' = [copilotToken EXCEPT !.len = StrLen(resp[who].Token)]
    /\ refreshesAt' = now + resp[who].RefreshIn
    /\ refPc' = [refPc EXCEPT ![who] = "log"]
    /\ UNCHANGED <<mainPc, resp, writer, stopClosed, loopPc, loopLocals,
                   loopErr, now, readerVars,
                   proxyVars, poll, procVars>>

\* second word of the string header, then
\* tm.refreshesAt = time.Now().Add((resp.RefreshIn - 60) seconds)
StoreTokenLen(who) ==
    /\ refPc[who] = "storeLen"
    /\ copilotToken' = [copilotToken EXCEPT !.len = StrLen(resp[who].Token)]
    /\ refreshesAt' = now + (resp[who].RefreshIn - RefreshBuffer)
    /\ refPc' = [refPc EXCEPT ![who] = "log"]
    /\ UNCHANGED <<mainPc, resp, writer, stopClosed, loopPc, loopLocals,
                   loopErr, now, readerVars,
                   proxyVars, poll, procVars>>

\* the log line written while the lock is held, the deferred
\* tm.mu.Unlock() and the return of nil
RefreshLogUnlock(who) ==
    /\ refPc[who] = "log"
    /\ writer' = "none"
    /\ refPc' = [refPc EXCEPT ![who] = "idle"]
    /\ resp' = [resp EXCEPT ![who] = NoResp]
    /\ RefreshSucceeded(who)
    /\ UNCHANGED <<tmVars, stopClosed, loopLocals, now, readerVars,
                   proxyVars, poll, procVars>>

(***************************************************************************)
(* TokenManager.refreshTokenLoop                                           *)
(***************************************************************************)
\* top of the loop: duration := time.Until(tm.refreshesAt) under the
\* shared lock, then the select arms time.After(duration)
LoopTop ==
    /\ loopPc = "top"
    /\ writer = "none"
    /\ ~WriterWaiting
    /\ duration' = refreshesAt - now
    /\ timerAt' = now + (refreshesAt - now)
    /\ loopPc' = "select"
    /\ UNCHANGED <<mainPc, refPc, resp, tmVars, writer, stopClosed, loopErr,
                   now, readerVars,
                   proxyVars, poll, procVars>>

\* mutant of LoopTimerFire: refresh takes the exclusive lock before the
\* exchange instead of after it
LoopTimerFireLocked ==
    /\ loopPc = "select"
    /\ now >= timerAt
    /\ writer = "none"
    /\ RLockHeld = {}
    /\ writer' = "loop"
    /\ loopPc' = "refresh"
    /\ refPc' = [refPc EXCEPT !["loop"] = "exchanging"]
    /\ duration' = 0
    /\ timerAt' = 0
    /\ UNCHANGED <<mainPc, resp, tmVars, stopClosed, loopErr, now,
                   readerVars, proxyVars, poll, procVars>>

\* case <-time.After(duration): the timer has fired; the loop logs and
\* calls refresh, whose exchange goes out
LoopTimerFire ==
    /\ loopPc = "select"
    /\ now >= timerAt
    /\ loopPc' = "refresh"
    /\ refPc' = [refPc EXCEPT !["loop"] = "exchanging"]
    /\ duration' = 0
    /\ timerAt' = 0
    /\ UNCHANGED <<mainPc, resp, tmVars, writer, stopClosed, loopErr, now,
                   readerVars,
                   proxyVars, poll, procVars>>

\* mutant of LoopStop: the stop channel is looked at only when the timer
\* has fired
LoopStopAfterTimer ==
    /\ loopPc = "select"
    /\ stopClosed
    /\ now >= timerAt
    /\ loopPc' = "stopped"
    /\ duration' = 0
    /\ timerAt' = 0
    /\ UNCHANGED <<mainPc, refPc, resp, tmVars, writer, stopClosed, loopErr,
                   now, readerVars,
                   proxyVars, poll, procVars>>

\* case <-tm.stopCh: the loop logs and returns
LoopStop ==
    /\ loopPc = "select"
    /\ stopClosed
    /\ loopPc' = "stopped"
    /\ duration' = 0
    /\ timerAt' = 0
    /\ UNCHANGED <<mainPc, refPc, resp, tmVars, writer, stopClosed, loopErr,
                   now, readerVars,
                   proxyVars, poll, procVars>>

(***************************************************************************)
(* TokenManager.Close                                                      *)
(***************************************************************************)
\* close(tm.stopCh), called once by runServer's defer
Close ==
    /\ mainPc = "serving"
    /\ ~stopClosed
    /\ stopClosed' = TRUE
    /\ UNCHANGED <<mainPc, refPc, resp, tmVars, writer, loopPc, loopLocals,
                   loopErr, now, readerVars,
                   proxyVars, poll, procVars>>

\* Close called on a manager that is closed already: close(tm.stopCh) of a
\* closed channel panics ("close of closed channel"), and the panic, which
\* nothing recovers, ends the process
CloseAgain ==
    /\ mainPc = "serving"
    /\ stopClosed
    /\ mainPc' = "panicked"
    /\ UNCHANGED <<refPc, resp, tmVars, writer, stopClosed, loopPc, loopLocals,
                   loopErr, now, readerVars,
                   proxyVars, poll, procVars>>

(***************************************************************************)
(* TokenManager.GetToken, called by Client.ForwardRequest                  *)
(***************************************************************************)
\* tm.mu.RLock(), which blocks while a writer holds or waits for the lock;
\* then return tm.copilotToken loads the first word of the header
GetTokenRLock(r) ==
    /\ mainPc = "serving"
    /\ rpc[r] \in {"idle", "returned"}
    /\ writer = "none"
    /\ ~WriterWaiting
    /\ rpc' = [rpc EXCEPT ![r] = "half"]
    /\ got' = [got EXCEPT ![r] = [data |-> copilotToken.data, len |-> -1]]
    /\ UNCHANGED <<mainPc, refPc, resp, tmVars, writer, stopClosed, loopPc,
                   loopLocals, loopErr, now, proxyVars, poll, procVars>>

\* the second word is loaded, the deferred tm.mu.RUnlock() runs and
\* GetToken returns the value
GetTokenReturn(r) ==
    /\ rpc[r] = "half"
    /\ got' = [got EXCEPT ![r] = [data |-> got[r].data, len |-> copilotToken.len]]
    /\ rpc' = [rpc EXCEPT ![r] = "returned"]
    /\ UNCHANGED <<mainPc, refPc, resp, tmVars, writer, stopClosed, loopPc,
                   loopLocals, loopErr, now, proxyVars, poll, procVars>>

(***************************************************************************)
(* The clock                                                               *)
(***************************************************************************)
Tick ==
    /\ mainPc = "serving"
    /\ now + TickStep <= MaxTime
    /\ now' = now + TickStep
    /\ UNCHANGED <<mainPc, refPc, resp, tmVars, writer, stopClosed, loopPc,
                   loopLocals, loopErr, readerVars,
                   proxyVars, poll, procVars>>

\* the steps of the running manager: the refresh after the exchange, the
\* loop, Close, the readers and the clock
Running ==
    \/ \E w \in Callers : RefreshLock(w)
    \/ \E w \in Callers : StoreTokenLen(w)
    \/ \E w \in Callers : RefreshLogUnlock(w)
    \/ LoopTop
    \/ LoopTimerFire
    \/ LoopStop
    \/ Close
    \/ \E r \in Readers : GetTokenRLock(r)
    \/ \E r \in Readers : GetTokenReturn(r)
    \/ Tick

Next ==
    \/ NewTokenManager
    \/ \E reply \in Replies(now) : ExchangeReturn("ctor", reply)
    \/ \E reply \in Replies(now) : ExchangeReturn("loop", reply)
    \/ Running

Spec == Init /\ [][Next]_vars

(***************************************************************************)
(* Fairness.  The loop goroutine and a reader inside GetToken, when they   *)
(* can take a step, eventually take it (the Go scheduler); an exchange of  *)
(* the loop in flight eventually returns (with a reply or an error); and a *)
(* select whose stop case is ready again and again eventually takes it     *)
(* (select chooses uniformly at random among the ready cases).  Nothing is *)
(* assumed of the clock: it need not advance.                              *)
(***************************************************************************)
\* the steps of the loop goroutine other than taking the stop case
LoopStep ==
    \/ LoopTop
    \/ LoopTimerFire
    \/ \E reply \in Replies(now) : ExchangeReturn("loop", reply)
    \/ RefreshLock("loop")
    \/ StoreTokenLen("loop")
    \/ RefreshLogUnlock("loop")

Fairness ==
    /\ WF_vars(LoopStep)
    /\ SF_vars(LoopStop)
    /\ \A r \in Readers : WF_vars(GetTokenReturn(r))

FairSpec == Spec /\ Fairness

\* The scenario "TokenManager constructed with refresh_in = 120": the
\* same program, every successful reply to the constructor's exchange
\* carrying refresh_in = 120
Replies120(t) ==
    {reply \in Replies(t) :
        (~reply.transportErr /\ reply.status = StatusOK /\ reply.decodable)
           => reply.body.RefreshIn = 120}

Next120 ==
    \/ NewTokenManager
    \/ \E reply \in Replies120(now) : ExchangeReturn("ctor", reply)
    \/ \E reply \in Replies(now) : ExchangeReturn("loop", reply)
    \/ Running

Spec120 == Init /\ [][Next120]_vars

\* The manager in the hands of a caller that may call Close more than
\* once: the program of Spec, and Close on the closed manager.  Once the
\* process has panicked none of its goroutines takes a step.
NextClose ==
    \/ NewTokenManager
    \/ \E reply \in Replies(now) : ExchangeReturn("ctor", reply)
    \/ mainPc # "panicked" /\ \E reply \in Replies(now) : ExchangeReturn("loop", reply)
    \/ mainPc # "panicked" /\ Running
    \/ CloseAgain

SpecClose == Init /\ [][NextClose]_vars

(***************************************************************************)
(* The request path: Server.modelsHandler and Server.proxyHandler, which   *)
(* call Client.ForwardRequest and httpstreaming.StreamResponse.  One       *)
(* handler goroutine is followed from request to request; its GetToken     *)
(* call is that of the reader HandlerReader.                               *)
(***************************************************************************)
HandlerReader == CHOOSE r \in Readers : \A q \in Readers : r <= q

\* a write of bytes to the client of which the connection accepts the first
\* k: Write returns an error when k is less than the length, and the
\* connection is broken from then on
WriteSome(rw, bytes, k) ==
    LET n == IF rw.broken THEN 0 ELSE k
        hw == WriteHeader(rw, StatusOK)
    IN [hw EXCEPT !.events = Append(hw.events,
                                    [op |-> "write", bytes |-> SubSeq(bytes, 1, n)]),
                  !.broken = rw.broken \/ n < Len(bytes)]

\* the call s.copilotClient.ForwardRequest(r.Context(), r) up to the call
\* of GetToken: when http.NewRequestWithContext fails ForwardRequest
\* returns its error at once
CallForwardRequest(r) ==
    LET built == ForwardBuild(r) IN
      /\ incomingReq' = r
      /\ rpc' = [rpc EXCEPT ![HandlerReader] = "idle"]
      /\ IF built.err # "nil"
           THEN /\ result' = [err |-> built.err, resp |-> NoResponse]
                /\ hpc' = "returned"
                /\ UNCHANGED upstreamReq
           ELSE /\ upstreamReq' = built.req
                /\ hpc' = "getToken"
                /\ UNCHANGED result

\* the mux hands a request for /v1/models or /models to modelsHandler,
\* which sets the path to /models and forwards the request
modelsHandler(req, flusher) ==
    /\ mainPc = "serving"
    /\ hpc = "idle"
    /\ rpc[HandlerReader] \in {"idle", "returned"}
    /\ Route(req.URL.Path) = "models"
    /\ handler' = "models"
    /\ ctx' = NewContext
    /\ respWriter' = NewResponseWriter(flusher)
    /\ CallForwardRequest([req EXCEPT !.URL.Path = <<"/models">>])
    /\ UNCHANGED <<managerVars, poll, procVars, got, local, parked>>

\* the mux hands every other request to proxyHandler, which reads the body
\* (answering 500 when that fails), restores it and forwards the request
proxyHandler(req, flusher) ==
    /\ mainPc = "serving"
    /\ hpc = "idle"
    /\ rpc[HandlerReader] \in {"idle", "returned"}
    /\ Route(req.URL.Path) = "proxy"
    /\ handler' = "proxy"
    /\ ctx' = NewContext
    /\ IF req.BodyErr
         THEN /\ respWriter' = HttpError(NewResponseWriter(flusher),
                                         "Failed to read request body",
                                         StatusInternalServerError)
              /\ incomingReq' = req
              /\ hpc' = "done"
              /\ UNCHANGED <<upstreamReq, result, rpc>>
         ELSE /\ respWriter' = NewResponseWriter(flusher)
              /\ CallForwardRequest(req)
    /\ UNCHANGED <<managerVars, poll, procVars, got, local, parked>>

\* mutant of ForwardGetToken: the client keeps the token of its first
\* GetToken call and uses it for the later requests
ForwardGetTokenCached ==
    /\ hpc = "getToken"
    /\ rpc[HandlerReader] = "idle"
    /\ IF got[HandlerReader] = NoValue
         THEN GetTokenRLock(HandlerReader)
         ELSE /\ rpc' = [rpc EXCEPT ![HandlerReader] = "returned"]
              /\ UNCHANGED <<managerVars, poll, procVars, got, proxyVars>>

\* ForwardRequest calls c.tokenManager.GetToken()
ForwardGetToken ==
    /\ hpc = "getToken"
    /\ rpc[HandlerReader] = "idle"
    /\ GetTokenRLock(HandlerReader)

\* GetToken has returned: ForwardRequest sets the Authorization header and
\* the fixed headers and calls c.httpClient.Do(upstreamReq), which sets the
\* deadline of the client's Timeout for the request and its response body
ForwardSend ==
    /\ hpc = "getToken"
    /\ rpc[HandlerReader] = "returned"
    /\ upstreamReq' =
         [upstreamReq EXCEPT
            !.Header = ForwardHeaders(upstreamReq.Header,
                                      StringOf(got[HandlerReader]))]
    /\ ctx' = [ctx EXCEPT !.deadline = now + ClientTimeout]
    /\ hpc' = "do"
    /\ UNCHANGED <<managerVars, poll, procVars, readerVars, parked, handler, incomingReq, result,
                   local, respWriter>>

\* c.httpClient.Do returns, and with it ForwardRequest
DoReturn(outcome) ==
    /\ hpc = "do"
    /\ result' = outcome
    /\ hpc' = "returned"
    /\ UNCHANGED <<managerVars, poll, procVars, readerVars, ctx, parked, handler, incomingReq, upstreamReq,
                   local, respWriter>>

\* the error message of the handler for a failed forward
ForwardFailedMessage ==
    IF handler = "models" THEN "Failed to proxy models request"
    ELSE "Failed to proxy request"

\* mutant of BadGateway: a failed forward is answered with the status 500
\* of an internal error
BadGatewayInternalError ==
    /\ respWriter' = HttpError(respWriter, ForwardFailedMessage,
                               StatusInternalServerError)
    /\ hpc' = "done"
    /\ UNCHANGED result

\* ForwardRequest returned an error: the handler logs it and answers 502
BadGateway ==
    /\ respWriter' = HttpError(respWriter, ForwardFailedMessage,
                               StatusBadGateway)
    /\ hpc' = "done"
    /\ UNCHANGED result

\* mutant of PassThrough: the handler answers an upstream error with a 502
\* of its own
PassThroughMasked ==
    /\ respWriter' = HttpError(respWriter,
                               "Failed to read upstream error response",
                               StatusBadGateway)
    /\ result' = [result EXCEPT !.resp.Body.pos = Len(result.resp.Body.data)]
    /\ hpc' = "done"

\* the upstream status is not 200: io.ReadAll of the body, then the
\* upstream status and the body are written; when the read fails the
\* handler answers 502
PassThrough ==
    /\ respWriter' =
         IF result.resp.Body.end = "err"
           THEN HttpError(respWriter,
                          "Failed to read upstream error response",
                          StatusBadGateway)
           ELSE Write(WriteHeader(respWriter, result.resp.StatusCode),
                      Unread(result.resp.Body))
    /\ result' = [result EXCEPT !.resp.Body.pos = Len(result.resp.Body.data)]
    /\ hpc' = "done"

\* mutant of StreamHeaders: StreamResponse goes to the body at once
StreamHeadersSkipped ==
    /\ hpc' = IF respWriter.flusher THEN "read" ELSE "copy"
    /\ UNCHANGED <<result, respWriter>>

\* the upstream status is 200: StreamResponse copies the upstream headers
\* to w.Header(), writes the status, and chooses the streaming loop when w
\* is an http.Flusher and the bulk copy when it is not
StreamHeaders ==
    /\ respWriter' = CopyHeaders(respWriter, result.resp)
    /\ hpc' = IF respWriter.flusher THEN "read" ELSE "copy"
    /\ UNCHANGED result

\* what the handler does with the result of ForwardRequest
HandleResult ==
    /\ hpc = "returned"
    /\ IF result.err # "nil" THEN BadGateway
       ELSE IF result.resp.StatusCode # StatusOK THEN PassThrough
       ELSE StreamHeaders
    /\ UNCHANGED <<managerVars, poll, procVars, readerVars, ctx, parked, handler, incomingReq, upstreamReq,
                   local>>

\* mutant of StreamRead: the buffer is one buffer of the package, which
\* all the calls of StreamResponse read into
StreamReadSharedBuf(n, err) ==
    /\ hpc = "read"
    /\ n <= Len(Unread(result.resp.Body))
    /\ n <= BufSize
    /\ err \in {"nil", result.resp.Body.end}
    /\ err # "nil" => n = Len(Unread(result.resp.Body))
    /\ (err = "nil" /\ n = 0) => Unread(result.resp.Body) # <<>>
    /\ local' = [buf |-> SubSeq(Unread(result.resp.Body), 1, n), err |-> err]
    /\ parked' = [parked EXCEPT !.local.buf = local'.buf]
    /\ result' = [result EXCEPT !.resp.Body.pos = @ + n]
    /\ hpc' = IF n > 0 THEN "write" ELSE IF err = "nil" THEN "read" ELSE "done"
    /\ UNCHANGED <<managerVars, poll, procVars, readerVars, ctx, handler, incomingReq,
                   upstreamReq, respWriter>>

\* n, err := upstreamResp.Body.Read(buf): at most len(buf) of the bytes
\* still to come; the end of the body (io.EOF or the read error) is
\* reported with the last bytes or by a read of its own
StreamRead(n, err) ==
    /\ hpc = "read"
    /\ n <= Len(Unread(result.resp.Body))
    /\ n <= BufSize
    /\ err \in {"nil", result.resp.Body.end}
    /\ err # "nil" => n = Len(Unread(result.resp.Body))
    /\ (err = "nil" /\ n = 0) => Unread(result.resp.Body) # <<>>
    /\ local' = [buf |-> SubSeq(Unread(result.resp.Body), 1, n), err |-> err]
    /\ result' = [result EXCEPT !.resp.Body.pos = @ + n]
    /\ hpc' = IF n > 0 THEN "write" ELSE IF err = "nil" THEN "read" ELSE "done"
    /\ UNCHANGED <<managerVars, poll, procVars, readerVars, ctx, parked, handler, incomingReq, upstreamReq,
                   respWriter>>

\* mutant of StreamWrite: the loop goes on after a failed write
StreamWriteIgnoresError(k) ==
    /\ hpc = "write"
    /\ k <= Len(local.buf)
    /\ respWriter' = WriteSome(respWriter, local.buf, k)
    /\ hpc' = "flush"
    /\ UNCHANGED <<managerVars, poll, procVars, readerVars, ctx, parked, handler, incomingReq, upstreamReq,
                   result, local>>

\* w.Write(buf[:n]): a write error ends the loop
StreamWrite(k) ==
    /\ hpc = "write"
    /\ k <= Len(local.buf)
    /\ respWriter' = WriteSome(respWriter, local.buf, k)
    /\ hpc' = IF k < Len(local.buf) THEN "done" ELSE "flush"
    /\ UNCHANGED <<managerVars, poll, procVars, readerVars, ctx, parked, handler, incomingReq, upstreamReq,
                   result, local>>

\* mutant of StreamFlush: the loop flushes once, when the body has ended
StreamFlushAtEnd ==
    /\ hpc = "flush"
    /\ respWriter' = IF local.err = "nil" THEN respWriter ELSE Flush(respWriter)
    /\ hpc' = IF local.err = "nil" THEN "read" ELSE "done"
    /\ UNCHANGED <<managerVars, poll, procVars, readerVars, ctx, parked, handler, incomingReq, upstreamReq,
                   result, local>>

\* flusher.Flush() and the end of the iteration: the loop ends when the
\* Read had returned io.EOF or an error
StreamFlush ==
    /\ hpc = "flush"
    /\ respWriter' = Flush(respWriter)
    /\ hpc' = IF local.err = "nil" THEN "read" ELSE "done"
    /\ UNCHANGED <<managerVars, poll, procVars, readerVars, ctx, parked, handler, incomingReq, upstreamReq,
                   result, local>>

\* mutant of StreamCopy: the fallback gives up without copying
StreamCopyNothing(k) ==
    /\ hpc = "copy"
    /\ k <= Len(Unread(result.resp.Body))
    /\ result' = [result EXCEPT !.resp.Body.pos = Len(result.resp.Body.data)]
    /\ hpc' = "done"
    /\ UNCHANGED <<managerVars, poll, procVars, readerVars, ctx, parked, handler, incomingReq, upstreamReq,
                   local, respWriter>>

\* io.Copy(w, upstreamResp.Body) of the fallback: everything the body
\* delivers is written, of which the connection accepts the first k bytes
\* (nothing is written for an empty body)
StreamCopy(k) ==
    /\ hpc = "copy"
    /\ k <= Len(Unread(result.resp.Body))
    /\ respWriter' = IF Unread(result.resp.Body) = <<>> THEN respWriter
                     ELSE WriteSome(respWriter, Unread(result.resp.Body), k)
    /\ result' = [result EXCEPT !.resp.Body.pos = Len(result.resp.Body.data)]
    /\ hpc' = "done"
    /\ UNCHANGED <<managerVars, poll, procVars, readerVars, ctx, parked, handler, incomingReq, upstreamReq,
                   local>>

\* the handler returns (the deferred Body.Close runs) and the goroutine is
\* free for the next request
HandlerReturn ==
    /\ hpc = "done"
    /\ hpc' = "idle"
    /\ handler' = "none"
    /\ incomingReq' = NoRequest
    /\ upstreamReq' = NoUpstreamRequest
    /\ result' = NoOutcome
    /\ local' = NoLocal
    /\ respWriter' = NoWriter
    /\ ctx' = NewContext
    /\ UNCHANGED <<managerVars, poll, procVars, readerVars, parked>>

(***************************************************************************)
(* Cancellation and the client's timeout.  The upstream request is made    *)
(* with the context of the inbound request (http.NewRequestWithContext),   *)
(* and httpClient.Do bounds it with the deadline of Client.Timeout, which  *)
(* covers the reading of the response body.  When the context is done, a   *)
(* call that waits for the upstream returns the context's error; data that *)
(* had reached the proxy before may still be returned by a Read.           *)
(***************************************************************************)
\* mutant of CtxErrors: the upstream request is made with a context of its
\* own, which the cancellation of the inbound request does not reach
CtxErrorsDetached(c) ==
    {e \in {"timeout"} : now >= c.deadline}

\* the errors a done context gives
CtxErrors(c) ==
    {e \in {"canceled", "timeout"} :
        \/ (e = "canceled" /\ c.cancelled)
        \/ (e = "timeout" /\ now >= c.deadline)}

\* the context of the inbound request is cancelled: the client has gone
\* away
CancelRequest ==
    /\ hpc # "idle"
    /\ ~ctx.cancelled
    /\ ctx' = [ctx EXCEPT !.cancelled = TRUE]
    /\ UNCHANGED <<managerVars, poll, procVars, readerVars, parked, hpc, handler, incomingReq,
                   upstreamReq, result, local, respWriter>>

\* c.httpClient.Do returns the error of the context
DoAborted ==
    /\ hpc = "do"
    /\ \E e \in CtxErrors(ctx) : result' = [err |-> e, resp |-> NoResponse]
    /\ hpc' = "returned"
    /\ UNCHANGED <<managerVars, poll, procVars, readerVars, ctx, parked, handler, incomingReq,
                   upstreamReq, local, respWriter>>

\* the upstream status is not 200 and io.ReadAll of the body returns the
\* error of the context: the handler answers 502
PassThroughAborted ==
    /\ hpc = "returned"
    /\ result.err = "nil"
    /\ result.resp.StatusCode # StatusOK
    /\ CtxErrors(ctx) # {}
    /\ respWriter' = HttpError(respWriter,
                               "Failed to read upstream error response",
                               StatusBadGateway)
    /\ hpc' = "done"
    /\ UNCHANGED <<managerVars, poll, procVars, readerVars, ctx, parked, handler, incomingReq,
                   upstreamReq, result, local>>

\* upstreamResp.Body.Read(buf) returns no bytes and the error of the
\* context, which ends the loop
StreamReadAborted ==
    /\ hpc = "read"
    /\ \E e \in CtxErrors(ctx) : local' = [buf |-> <<>>, err |-> e]
    /\ hpc' = "done"
    /\ UNCHANGED <<managerVars, poll, procVars, readerVars, ctx, parked, handler, incomingReq,
                   upstreamReq, result, respWriter>>

\* io.Copy of the fallback is ended by the error of the context after j
\* bytes of those still to come, of which the connection accepts the
\* first k
StreamCopyAborted(j, k) ==
    /\ hpc = "copy"
    /\ j < Len(Unread(result.resp.Body))
    /\ k <= j
    /\ \E e \in CtxErrors(ctx) : local' = [buf |-> <<>>, err |-> e]
    /\ respWriter' = IF j = 0 THEN respWriter
                     ELSE WriteSome(respWriter,
                                    SubSeq(Unread(result.resp.Body), 1, j), k)
    /\ result' = [result EXCEPT !.resp.Body.pos = @ + j]
    /\ hpc' = "done"
    /\ UNCHANGED <<managerVars, poll, procVars, readerVars, ctx, parked, handler, incomingReq,
                   upstreamReq>>

(***************************************************************************)
(* Two requests in flight.  net/http runs every request in a goroutine of  *)
(* its own.  The handler goroutine that runs is the one the variables      *)
(* describe; a second one rests in parked, and the scheduler switches      *)
(* between the two (while neither is between the two loads of GetToken).   *)
(***************************************************************************)
\* the handler goroutine that runs
RunningHandler ==
    [hpc |-> hpc, handler |-> handler, incomingReq |-> incomingReq,
     upstreamReq |-> upstreamReq, result |-> result, local |-> local,
     respWriter |-> respWriter, ctx |-> ctx,
     rpc |-> rpc[HandlerReader], got |-> got[HandlerReader]]

\* the scheduler suspends the running handler goroutine and resumes the
\* other one
Switch ==
    /\ mainPc = "serving"
    /\ rpc[HandlerReader] # "half"
    /\ parked' = RunningHandler
    /\ hpc' = parked.hpc
    /\ handler' = parked.handler
    /\ incomingReq' = parked.incomingReq
    /\ upstreamReq' = parked.upstreamReq
    /\ result' = parked.result
    /\ local' = parked.local
    /\ respWriter' = parked.respWriter
    /\ ctx' = parked.ctx
    /\ rpc' = [rpc EXCEPT ![HandlerReader] = parked.rpc]
    /\ got' = [got EXCEPT ![HandlerReader] = parked.got]
    /\ UNCHANGED <<managerVars, poll, procVars>>

(***************************************************************************)
(* PollAccessToken, which the auth command calls with the device code.     *)
(* poll.log has one entry for every poll request issued: when the timer    *)
(* that preceded it was armed and with which duration, when the request    *)
(* went out, whether the context was cancelled by then, and the answer.    *)
(***************************************************************************)
\* mutant of PollAccessToken: the first poll goes out without a wait
PollAccessTokenNoFirstWait(interval) ==
    /\ poll.pc = "idle"
    /\ mainPc = "start"
    /\ poll' = [poll EXCEPT !.pc = "select", !.interval = interval,
                            !.armedAt = now, !.timerAt = now]
    /\ UNCHANGED <<managerVars, readerVars, proxyVars, procVars>>

\* the call: interval := deviceCode.Interval seconds, and the first select
\* arms time.After(interval)
PollAccessToken(interval) ==
    /\ poll.pc = "idle"
    /\ mainPc = "start"
    /\ poll' = [poll EXCEPT !.pc = "select", !.interval = interval,
                            !.armedAt = now, !.timerAt = now + interval]
    /\ UNCHANGED <<managerVars, readerVars, proxyVars, procVars>>

\* the caller cancels ctx
PollCancel ==
    /\ poll.pc \in {"select", "request"}
    /\ ~poll.cancelled
    /\ poll' = [poll EXCEPT !.cancelled = TRUE]
    /\ UNCHANGED <<managerVars, readerVars, proxyVars, procVars>>

\* mutant of PollCancelled: the context is looked at when the wait is over
PollCancelledAfterWait ==
    /\ poll.pc = "select"
    /\ poll.cancelled
    /\ now >= poll.timerAt
    /\ poll' = [poll EXCEPT !.pc = "returned",
                            !.ret = [token |-> "", err |-> "canceled"]]
    /\ UNCHANGED <<managerVars, readerVars, proxyVars, procVars>>

\* case <-ctx.Done(): return "", ctx.Err()
PollCancelled ==
    /\ poll.pc = "select"
    /\ poll.cancelled
    /\ poll' = [poll EXCEPT !.pc = "returned",
                            !.ret = [token |-> "", err |-> "canceled"]]
    /\ UNCHANGED <<managerVars, readerVars, proxyVars, procVars>>

\* case <-time.After(interval): the request is built with ctx and
\* http.DefaultClient.Do sends it
PollTimerFire ==
    /\ poll.pc = "select"
    /\ now >= poll.timerAt
    /\ Len(poll.log) < MaxPolls
    /\ poll' = [poll EXCEPT
                  !.pc = "request",
                  !.log = Append(poll.log,
                                 [armedAt |-> poll.armedAt,
                                  wait |-> poll.interval,
                                  at |-> now,
                                  afterCancel |-> poll.cancelled,
                                  answer |-> NoAnswer])]
    /\ UNCHANGED <<managerVars, readerVars, proxyVars, procVars>>

\* Do returns and the iteration ends: with a return, or with continue,
\* after which the next select arms time.After(interval) again.  Do
\* returns the error of ctx when ctx was cancelled before the request went
\* out; when ctx is cancelled with the request in flight, the answer or
\* the error may come first.
PollReturn(answer) ==
    /\ poll.pc = "request"
    /\ poll.log[Len(poll.log)].afterCancel => answer.transportErr
    /\ LET logged == [poll.log EXCEPT ![Len(poll.log)].answer = answer]
           decision == PollDecision(answer)
       IN poll' =
            IF decision = "success"
              THEN [poll EXCEPT !.pc = "returned", !.log = logged,
                                !.ret = [token |-> answer.body.AccessToken,
                                         err |-> "nil"]]
            ELSE IF decision = "expired"
              THEN [poll EXCEPT !.pc = "returned", !.log = logged,
                                !.ret = [token |-> "",
                                         err |-> "device code expired"]]
            ELSE [poll EXCEPT !.pc = "select", !.log = logged,
                              !.armedAt = now,
                              !.timerAt = now + poll.interval]
    /\ UNCHANGED <<managerVars, readerVars, proxyVars, procVars>>

\* the clock while the auth command runs
AuthTick ==
    /\ poll.pc \in {"select", "request"}
    /\ now + TickStep <= MaxTime
    /\ now' = now + TickStep
    /\ UNCHANGED <<mainPc, refPc, resp, tmVars, writer, stopClosed, loopPc,
                   loopLocals, loopErr, readerVars, proxyVars, poll, procVars>>

(***************************************************************************)
(* Specifications of the request path.                                     *)
(***************************************************************************)
\* The state after construction: NewTokenManager has returned the manager
\* with a token and refresh_in = 120, the loop waits in its select, and
\* the server is listening with no request in progress.
InitServing ==
    /\ mainPc = "serving"
    /\ refPc = [c \in Callers |-> "idle"]
    /\ resp = [c \in Callers |-> NoResp]
    /\ copilotToken \in {GoString(t) : t \in TokenValues}
    /\ refreshesAt = 120 - RefreshBuffer
    /\ writer = "none"
    /\ stopClosed = FALSE
    /\ loopPc = "select"
    /\ duration = 120 - RefreshBuffer
    /\ timerAt = 120 - RefreshBuffer
    /\ loopErr = "none"
    /\ now = 0
    /\ rpc = [r \in Readers |-> "idle"]
    /\ got = [r \in Readers |-> NoValue]
    /\ hpc = "idle"
    /\ handler = "none"
    /\ incomingReq = NoRequest
    /\ upstreamReq = NoUpstreamRequest
    /\ result = NoOutcome
    /\ local = NoLocal
    /\ respWriter = NoWriter
    /\ ctx = NewContext
    /\ parked = IdleHandler
    /\ poll = NoPoll
    /\ boot = NoBoot
    /\ srv = NoServer

\* the outcomes of httpClient.Do that are errors
ErrorOutcomes == {o \in Outcomes : o.err # "nil"}

\* The forwarder: every inbound request is forwarded while the manager
\* rests (the scheduled refresh is not yet due); what is done with an
\* upstream response is left to SpecRelay, so here the upstream call ends
\* with an error.
NextForward ==
    \/ \E req \in Requests, flusher \in BOOLEAN : modelsHandler(req, flusher)
    \/ \E req \in Requests, flusher \in BOOLEAN : proxyHandler(req, flusher)
    \/ ForwardGetToken
    \/ GetTokenReturn(HandlerReader)
    \/ ForwardSend
    \/ \E outcome \in ErrorOutcomes : DoReturn(outcome)
    \/ HandleResult
    \/ HandlerReturn

SpecForward == InitServing /\ [][NextForward]_vars

\* the inbound requests of SpecRelay: to the chat alias, to the models
\* alias and to a path that cannot be forwarded, with and without a
\* failing body
RelayRequests ==
    {req \in Requests :
        /\ req.Method = "POST"
        /\ req.URL.RawQuery = ""
        /\ req.Header = EmptyHeader
        /\ req.URL.Path \in {<<"/v1/chat/completions">>, <<"/v1/models">>,
                             <<"/x", "%zz">>}}

\* The handlers and the relay: a few inbound requests, every outcome of the
\* upstream call, while the manager rests.
NextRelay ==
    \/ \E req \in RelayRequests, flusher \in BOOLEAN : modelsHandler(req, flusher)
    \/ \E req \in RelayRequests, flusher \in BOOLEAN : proxyHandler(req, flusher)
    \/ ForwardGetToken
    \/ GetTokenReturn(HandlerReader)
    \/ ForwardSend
    \/ \E outcome \in Outcomes : DoReturn(outcome)
    \/ HandleResult
    \/ \E n \in 0..BufSize, err \in {"nil", "EOF", "err"} : StreamRead(n, err)
    \/ \E k \in 0..BufSize : StreamWrite(k)
    \/ StreamFlush
    \/ \E k \in 0..MaxBody : StreamCopy(k)
    \/ HandlerReturn

SpecRelay == InitServing /\ [][NextRelay]_vars

\* the inbound requests of SpecTraffic: chat requests without headers and
\* with an Authorization header of the client's
TrafficRequests ==
    {req \in Requests :
        /\ req.Method = "POST"
        /\ req.URL.RawQuery = ""
        /\ ~req.BodyErr
        /\ \A k \in DOMAIN req.Header : k \in {"Authorization", "Accept"}
        /\ req.URL.Path = <<"/v1/chat/completions">>}

\* Requests in the middle of token swaps: the program from its start,
\* within one instant of the clock (a reply with refresh_in <= 60 makes the
\* next refresh due at once, so that the manager refreshes again and
\* again), and the handler forwarding requests meanwhile.
NextTraffic ==
    \/ NewTokenManager
    \/ \E reply \in Replies(now) : ExchangeReturn("ctor", reply)
    \/ \E reply \in Replies(now) : ExchangeReturn("loop", reply)
    \/ \E c \in Callers : RefreshLock(c)
    \/ \E c \in Callers : StoreTokenLen(c)
    \/ \E c \in Callers : RefreshLogUnlock(c)
    \/ LoopTop
    \/ LoopTimerFire
    \/ LoopStop
    \/ Close
    \/ \E req \in TrafficRequests, flusher \in {TRUE} : proxyHandler(req, flusher)
    \/ ForwardGetToken
    \/ GetTokenReturn(HandlerReader)
    \/ ForwardSend
    \/ \E outcome \in ErrorOutcomes : DoReturn(outcome)
    \/ HandleResult
    \/ HandlerReturn

SpecTraffic == Init /\ [][NextTraffic]_vars

\* the inbound requests of SpecDeadline: chat requests
DeadlineRequests ==
    {req \in Requests :
        /\ req.Method = "POST"
        /\ req.URL.RawQuery = ""
        /\ ~req.BodyErr
        /\ req.Header = EmptyHeader
        /\ req.URL.Path = <<"/v1/chat/completions">>}

\* the outcomes of the upstream call in SpecDeadline: an error, and the
\* responses without headers of status 200 and 404
DeadlineOutcomes ==
    {o \in Outcomes :
        o.err = "nil" =>
          (o.resp.Header = EmptyHeader /\ o.resp.StatusCode \in {StatusOK, 404})}

\* One request at a time while the clock advances and the client may go
\* away: the forward and the relay with the client's timeout and the
\* cancellation of the request's context.
NextDeadline ==
    \/ \E req \in DeadlineRequests, flusher \in BOOLEAN : proxyHandler(req, flusher)
    \/ ForwardGetToken
    \/ GetTokenReturn(HandlerReader)
    \/ ForwardSend
    \/ \E outcome \in DeadlineOutcomes : DoReturn(outcome)
    \/ DoAborted
    \/ HandleResult
    \/ PassThroughAborted
    \/ \E n \in 0..BufSize, err \in {"nil", "EOF", "err"} : StreamRead(n, err)
    \/ StreamReadAborted
    \/ \E k \in 0..BufSize : StreamWrite(k)
    \/ StreamFlush
    \/ \E k \in 0..MaxBody : StreamCopy(k)
    \/ \E j \in 0..MaxBody, k \in 0..MaxBody : StreamCopyAborted(j, k)
    \/ HandlerReturn
    \/ CancelRequest
    \/ Tick

SpecDeadline == InitServing /\ [][NextDeadline]_vars

\* the inbound requests of SpecPair: a chat request
PairRequests == {req \in DeadlineRequests : req.Method = "POST"}

\* the outcomes of the upstream call in SpecPair: an error, a 404 and a 200
\* without headers, with a body of two bytes that ends with io.EOF
PairOutcomes ==
    {o \in DeadlineOutcomes :
        o.err = "nil" =>
          (o.resp.Body.data = <<"x", "y">> /\ o.resp.Body.end = "EOF")}

\* Two requests in flight at once, either of which the client may cancel,
\* while the manager rests.
NextPair ==
    \/ \E req \in PairRequests, flusher \in BOOLEAN : proxyHandler(req, flusher)
    \/ ForwardGetToken
    \/ GetTokenReturn(HandlerReader)
    \/ ForwardSend
    \/ \E outcome \in PairOutcomes : DoReturn(outcome)
    \/ DoAborted
    \/ HandleResult
    \/ PassThroughAborted
    \/ \E n \in 0..BufSize, err \in {"nil", "EOF", "err"} : StreamRead(n, err)
    \/ StreamReadAborted
    \/ \E k \in 0..BufSize : StreamWrite(k)
    \/ StreamFlush
    \/ \E k \in 0..MaxBody : StreamCopy(k)
    \/ \E j \in 0..MaxBody, k \in 0..MaxBody : StreamCopyAborted(j, k)
    \/ HandlerReturn
    \/ CancelRequest
    \/ Switch

SpecPair == InitServing /\ [][NextPair]_vars

\* the replies to the exchange in SpecSwap: a transport error, and the
\* successful replies with one of two tokens and a refresh_in that makes
\* the next refresh due at once
SwapReplies(t) ==
    {reply \in Replies(t) :
        IF reply.status = StatusOK /\ reply.decodable
          THEN /\ reply.body.Token \in {"a", "bb"}
               /\ reply.body.RefreshIn = 60
               /\ reply.body.ExpiresAt = t + TokenLifetime
          ELSE reply.transportErr}

\* the outcomes of the upstream call in SpecSwap: an error, and a 200
\* without headers, with a body of one byte that ends with io.EOF
SwapOutcomes ==
    {o \in DeadlineOutcomes :
        o.err = "nil" =>
          /\ o.resp.StatusCode = StatusOK
          /\ o.resp.Body.data = <<"x">>
          /\ o.resp.Body.end = "EOF"}

\* Two requests in flight in the middle of token swaps: the program from
\* its start, within one instant of the clock, the manager refreshing
\* again and again, and two handler goroutines forwarding and relaying
\* meanwhile.
NextSwap ==
    \/ NewTokenManager
    \/ \E reply \in SwapReplies(now) : ExchangeReturn("ctor", reply)
    \/ \E reply \in SwapReplies(now) : ExchangeReturn("loop", reply)
    \/ \E c \in Callers : RefreshLock(c)
    \/ \E c \in Callers : StoreTokenLen(c)
    \/ \E c \in Callers : RefreshLogUnlock(c)
    \/ LoopTop
    \/ LoopTimerFire
    \/ \E req \in PairRequests, flusher \in {TRUE} : proxyHandler(req, flusher)
    \/ ForwardGetToken
    \/ GetTokenReturn(HandlerReader)
    \/ ForwardSend
    \/ \E outcome \in SwapOutcomes : DoReturn(outcome)
    \/ HandleResult
    \/ \E n \in 0..BufSize, err \in {"nil", "EOF", "err"} : StreamRead(n, err)
    \/ \E k \in 0..BufSize : StreamWrite(k)
    \/ StreamFlush
    \/ HandlerReturn
    \/ Switch

SpecSwap == Init /\ [][NextSwap]_vars

\* The auth command: a call of PollAccessToken with every interval and
\* every sequence of answers, the clock, and the cancellation of ctx.
NextPoll ==
    \/ \E interval \in IntervalValues : PollAccessToken(interval)
    \/ PollTimerFire
    \/ \E answer \in PollAnswers : PollReturn(answer)
    \/ PollCancel
    \/ PollCancelled
    \/ AuthTick

SpecPoll == Init /\ [][NextPoll]_vars

\* the inbound requests of SpecModels: to the two paths of the model
\* listing and to another path, with headers of the client, a GET with
\* and without a query and a POST
ModelsRequests ==
    {req \in Requests :
        /\ ~req.BodyErr
        /\ DOMAIN req.Header = {"Authorization", "Accept"}
        /\ (req.Method = "GET" \/ req.URL.RawQuery = "")
        /\ req.URL.Path \in {<<"/v1/models">>, <<"/models">>, <<"/x">>}}

\* what the upstream call of SpecModels ends with: an error, a 200 or a 404
ModelsOutcomes ==
    {o \in Outcomes : o.err = "nil" => o.resp.StatusCode \in {StatusOK, 404}}

\* The model listing next to another proxied request: the handlers and the
\* relay for every outcome of the upstream call, while the manager rests.
NextModels ==
    \/ \E req \in ModelsRequests, flusher \in BOOLEAN : modelsHandler(req, flusher)
    \/ \E req \in ModelsRequests, flusher \in BOOLEAN : proxyHandler(req, flusher)
    \/ ForwardGetToken
    \/ GetTokenReturn(HandlerReader)
    \/ ForwardSend
    \/ \E outcome \in ModelsOutcomes : DoReturn(outcome)
    \/ HandleResult
    \/ \E n \in 0..BufSize, err \in {"nil", "EOF", "err"} : StreamRead(n, err)
    \/ \E k \in 0..BufSize : StreamWrite(k)
    \/ StreamFlush
    \/ \E k \in 0..MaxBody : StreamCopy(k)
    \/ HandlerReturn

SpecModels == InitServing /\ [][NextModels]_vars

(***************************************************************************)
(* The start of the process: main, which makes sure the token file exists  *)
(* and runs the command of its first argument; runServer, which loads the  *)
(* configuration with config.Load and constructs the token manager; and    *)
(* runAuth, which asks for a device code and polls for the access token.   *)
(* The token file is "absent" or holds a string ("" when it is empty).     *)
(***************************************************************************)
\* os.Args[1]: "" when there is no argument
Commands == {"", "auth", "server", "other"}
\* the environment: the variables config.Load reads (PROXY_PORT,
\* GITHUB_TOKEN) and the ones the README names (PORT, COPILOT_TOKEN); ""
\* is an unset variable
Environments ==
    [PROXY_PORT : {"", "9000"}, PORT : {"", "9001"},
     GITHUB_TOKEN : {"", "ghu_env"}, COPILOT_TOKEN : {"", "cop_env"}]
\* the token file when the process starts
FileStates == {"absent", "", "gho_file"}
\* the port of config.Load when PROXY_PORT is not set
DefaultPort == "8080"

\* the process has just started
InitBoot ==
    /\ mainPc = "start"
    /\ refPc = [w \in Callers |-> "idle"]
    /\ resp = [w \in Callers |-> NoResp]
    /\ copilotToken = GoString("")
    /\ refreshesAt = ZeroTime
    /\ writer = "none"
    /\ stopClosed = FALSE
    /\ loopPc = "none"
    /\ duration = 0
    /\ timerAt = 0
    /\ loopErr = "none"
    /\ now = 0
    /\ rpc = [r \in Readers |-> "idle"]
    /\ got = [r \in Readers |-> NoValue]
    /\ hpc = "idle"
    /\ handler = "none"
    /\ incomingReq = NoRequest
    /\ upstreamReq = NoUpstreamRequest
    /\ result = NoOutcome
    /\ local = NoLocal
    /\ respWriter = NoWriter
    /\ ctx = NewContext
    /\ parked = IdleHandler
    /\ poll = NoPoll
    /\ srv = NoServer
    /\ \E c \in Commands, e \in Environments, h \in BOOLEAN, f \in FileStates :
         boot = [pc |-> "main", command |-> c, env |-> e, home |-> h,
                 file |-> f, file0 |-> f, cfg |-> NoConfig, interval |-> 0,
                 exit |-> "none"]

\* main calls config.EnsurePaths: os.UserHomeDir, MkdirAll of the
\* directory and OpenFile with O_CREATE, which creates the token file,
\* empty, when it is absent; an error of any of them ends the process
EnsurePaths(ok) ==
    /\ boot.pc = "main"
    /\ boot' = IF boot.home /\ ok
                 THEN [boot EXCEPT !.pc = "args",
                                   !.file = IF boot.file = "absent" THEN ""
                                            ELSE boot.file]
                 ELSE [boot EXCEPT !.pc = "exit", !.exit = "paths"]
    /\ UNCHANGED <<managerVars, readerVars, proxyVars, poll, srv>>

\* main looks at its arguments: without a command, or with an unknown one,
\* it prints the usage and exits; else it runs the command
Dispatch ==
    /\ boot.pc = "args"
    /\ boot' = CASE boot.command = "auth" -> [boot EXCEPT !.pc = "runAuth"]
                 [] boot.command = "server" -> [boot EXCEPT !.pc = "runServer"]
                 [] OTHER -> [boot EXCEPT !.pc = "exit", !.exit = "usage"]
    /\ UNCHANGED <<managerVars, readerVars, proxyVars, poll, srv>>

\* what config.Load returns: the port from PROXY_PORT or the default; the
\* token from GITHUB_TOKEN or, when that is not set, from the token file,
\* whose read may fail; an empty token is an error
Load(env, file, readOk) ==
    LET port == IF env.PROXY_PORT = "" THEN DefaultPort ELSE env.PROXY_PORT
        token == IF env.GITHUB_TOKEN # "" THEN env.GITHUB_TOKEN ELSE file
    IN IF env.GITHUB_TOKEN = "" /\ (~readOk \/ file = "absent")
         THEN [err |-> "read", cfg |-> NoConfig]
       ELSE IF token = ""
         THEN [err |-> "empty", cfg |-> NoConfig]
       ELSE [err |-> "nil", cfg |-> [Port |-> port, GitHubToken |-> token]]

\* mutant of ConfigLoad: runServer goes on with whatever config.Load
\* could find, an empty token included
ConfigLoadAnyToken(readOk) ==
    /\ boot.pc = "runServer"
    /\ boot' = [boot EXCEPT
                  !.pc = "configured",
                  !.cfg = [Port |-> IF boot.env.PROXY_PORT = "" THEN DefaultPort
                                    ELSE boot.env.PROXY_PORT,
                           GitHubToken |-> IF boot.env.GITHUB_TOKEN # ""
                                             THEN boot.env.GITHUB_TOKEN
                                           ELSE IF boot.file = "absent" THEN ""
                                           ELSE boot.file]]
    /\ UNCHANGED <<managerVars, readerVars, proxyVars, poll, srv>>

\* runServer calls config.Load and exits when it returns an error
ConfigLoad(readOk) ==
    /\ boot.pc = "runServer"
    /\ LET r == Load(boot.env, boot.file, readOk) IN
         boot' = IF r.err # "nil"
                   THEN [boot EXCEPT !.pc = "exit", !.exit = "config"]
                   ELSE [boot EXCEPT !.pc = "configured", !.cfg = r.cfg]
    /\ UNCHANGED <<managerVars, readerVars, proxyVars, poll, srv>>

\* runAuth calls GetDeviceCode: an error of the request, a status other
\* than 200 or an undecodable body ends the process; else the device code
\* with its interval is at hand and the user code is printed
GetDeviceCode(ok, interval) ==
    /\ boot.pc = "runAuth"
    /\ boot' = IF ok
                 THEN [boot EXCEPT !.pc = "polling", !.interval = interval]
                 ELSE [boot EXCEPT !.pc = "exit", !.exit = "deviceCode"]
    /\ UNCHANGED <<managerVars, readerVars, proxyVars, poll, srv>>

\* The start of the process for every command, environment and token
\* file, up to the construction of the token manager (runServer) and to
\* the first wait of the polling (runAuth).
NextBoot ==
    \/ \E ok \in BOOLEAN : EnsurePaths(ok)
    \/ Dispatch
    \/ \E readOk \in BOOLEAN : ConfigLoad(readOk)
    \/ boot.pc = "configured" /\ NewTokenManager
    \/ \E ok \in BOOLEAN, interval \in IntervalValues : GetDeviceCode(ok, interval)
    \/ boot.pc = "polling" /\ PollAccessToken(boot.interval)

SpecBoot == InitBoot /\ [][NextBoot]_vars

(***************************************************************************)
(* Server.Start.  It starts a goroutine that waits for the context to be   *)
(* done and then calls httpServer.Shutdown with a deadline, and it calls   *)
(* httpServer.ListenAndServe.  Shutdown closes the listeners, which makes  *)
(* ListenAndServe return http.ErrServerClosed at once, and then waits      *)
(* until no request is in progress or its deadline has passed.  When       *)
(* Start returns, runServer returns and the process ends, whatever its     *)
(* goroutines are doing.                                                   *)
(***************************************************************************)
\* runServer calls srv.Start(ctx): the shutdown goroutine is started
ServerStart ==
    /\ mainPc = "serving"
    /\ srv.pc = "none"
    /\ srv' = [srv EXCEPT !.pc = "called"]
    /\ UNCHANGED <<managerVars, readerVars, proxyVars, poll, boot>>

\* ListenAndServe listens on s.addr: a failure (the port is in use) is
\* returned by Start; else the server accepts requests
Listen(ok) ==
    /\ srv.pc = "called"
    /\ srv.shutdown = "none"
    /\ srv' = IF ok THEN [srv EXCEPT !.pc = "listening"]
              ELSE [srv EXCEPT !.pc = "returned", !.ret = "listen"]
    /\ UNCHANGED <<managerVars, readerVars, proxyVars, poll, boot>>

\* a signal arrives and runServer's goroutine calls cancel()
Signal ==
    /\ srv.pc \in {"called", "listening"}
    /\ ~srv.ctxDone
    /\ srv' = [srv EXCEPT !.ctxDone = TRUE]
    /\ UNCHANGED <<managerVars, readerVars, proxyVars, poll, boot>>

\* <-ctx.Done() returns in the goroutine, which calls
\* httpServer.Shutdown(shutdownCtx): the listeners are closed
ShutdownBegin ==
    /\ srv.pc \in {"called", "listening"}
    /\ srv.ctxDone
    /\ srv.shutdown = "none"
    /\ srv' = [srv EXCEPT !.shutdown = "running",
                          !.deadline = now + ShutdownTimeout]
    /\ UNCHANGED <<managerVars, readerVars, proxyVars, poll, boot>>

\* ListenAndServe returns http.ErrServerClosed once Shutdown has been
\* called, and Start returns nil
ServeReturn ==
    /\ srv.pc \in {"called", "listening"}
    /\ srv.shutdown # "none"
    /\ srv' = [srv EXCEPT !.pc = "returned", !.ret = "nil"]
    /\ UNCHANGED <<managerVars, readerVars, proxyVars, poll, boot>>

\* Shutdown returns: no request is in progress, or its deadline has passed
ShutdownEnd ==
    /\ srv.pc # "returned"
    /\ srv.shutdown = "running"
    /\ hpc = "idle" \/ now >= srv.deadline
    /\ srv' = [srv EXCEPT !.shutdown = "done"]
    /\ UNCHANGED <<managerVars, readerVars, proxyVars, poll, boot>>

\* the process is alive: Start has not returned
Alive == srv.pc # "returned"
\* the server accepts a request: it listens and Shutdown has not been called
Accepting == srv.pc = "listening" /\ srv.shutdown = "none"

\* The server from the call of Start to its return: requests are accepted
\* and relayed, a signal cancels the context, the clock advances.
NextServe ==
    \/ ServerStart
    \/ \E ok \in BOOLEAN : Listen(ok)
    \/ Signal
    \/ ShutdownBegin
    \/ ServeReturn
    \/ ShutdownEnd
    \/ Accepting /\ \E req \in PairRequests, flusher \in BOOLEAN : proxyHandler(req, flusher)
    \/ Alive /\ ForwardGetToken
    \/ Alive /\ GetTokenReturn(HandlerReader)
    \/ Alive /\ ForwardSend
    \/ Alive /\ \E outcome \in PairOutcomes : DoReturn(outcome)
    \/ Alive /\ HandleResult
    \/ Alive /\ \E n \in 0..BufSize, err \in {"nil", "EOF", "err"} : StreamRead(n, err)
    \/ Alive /\ \E k \in 0..BufSize : StreamWrite(k)
    \/ Alive /\ StreamFlush
    \/ Alive /\ \E k \in 0..MaxBody : StreamCopy(k)
    \/ Alive /\ HandlerReturn
    \/ Alive /\ Tick

SpecServe == InitServing /\ [][NextServe]_vars

(***************************************************************************)
(* Claims                                                                  *)
(***************************************************************************)

\* C1: once NewTokenManager has returned a manager (the server is serving),
\* no GetToken call returns the empty string, whatever exchanges succeed or
\* fail, including a 200 reply whose token field is empty or missing.
C1_GetTokenNeverEmpty ==
    \A r \in Readers : rpc[r] = "returned" => got[r] # GoString("")

\* C2: when the initial exchange fails, NewTokenManager yields no manager
\* and starts no refresh loop, and as long as no successful exchange has
\* been stored in the manager (tm.refreshesAt is still the zero time) no
\* loop runs, the server is not serving and no request reads the token.
C2_NoServingUninitialized ==
    /\ mainPc = "failed" =>
         /\ loopPc = "none"
         /\ refPc["loop"] = "idle"
         /\ \A r \in Readers : rpc[r] = "idle"
    /\ refreshesAt = ZeroTime =>
         /\ mainPc # "serving"
         /\ loopPc = "none"
         /\ \A r \in Readers : rpc[r] = "idle"

\* witness of C2: the initial exchange has failed
C2_Witness ==
    mainPc = "failed" /\ refreshesAt = ZeroTime /\ loopPc = "none"

\* C3: from the start of an exchange of the refresh loop, through its
\* failure and until the loop's next exchange has returned, no step changes
\* the stored token or the refresh time; and a GetToken call returns the
\* stored token.  So after a failed refresh GetToken returns what it
\* returned before the attempt.
C3_FailedRefreshChangesNothing ==
    [][ /\ (loopPc # "none" /\ refPc["loop"] \in {"idle", "exchanging"})
           => (copilotToken' = copilotToken /\ refreshesAt' = refreshesAt)
        /\ \A r \in Readers :
             (rpc[r] = "half" /\ rpc'[r] = "returned") => got'[r] = copilotToken
      ]_vars

\* witness of C3: the loop's last refresh failed and a GetToken call has
\* returned the token stored before it
C3_Witness ==
    /\ loopErr = "err"
    /\ refPc["loop"] = "idle"
    /\ copilotToken = GoString("a")
    /\ \E r \in Readers : rpc[r] = "returned" /\ got[r] = GoString("a")

\* C4: after a failed refresh the loop waits a strictly positive time
\* before its next exchange: the duration it hands to time.After in the
\* select that follows a failed refresh is positive.
C4_PositiveWaitAfterFailure ==
    (loopPc = "select" /\ loopErr = "err") => duration > 0

\* C5: after a failed refresh (the loop is back at its top with the error)
\* the loop eventually has another exchange in flight, unless the manager
\* is closed; a refresh of the loop whose exchange has succeeded (it waits
\* for the exclusive lock) eventually reaches its log line, where the
\* stored token is the token just obtained; and the loop stops only when
\* the manager has been closed.  (From the top of the loop the log line is
\* reached only through an exchange, and from the lock an exchange or the
\* idle refresh only through the log line.)
C5_FailureIsRecoverable ==
    /\ ((loopErr = "err" /\ loopPc = "top") \/ refPc["loop"] = "lock")
          ~> (\/ refPc["loop"] = "exchanging"
              \/ (stopClosed /\ refPc["loop"] = "idle")
              \/ refPc["loop"] = "log")
    /\ [](/\ refPc["loop"] = "log" =>
                copilotToken = GoString(resp["loop"].Token)
          /\ loopPc = "stopped" => stopClosed)

\* witness of C5: after a failed refresh the loop's next exchange is in
\* flight, the manager not closed
C5_Witness ==
    loopErr = "err" /\ refPc["loop"] = "exchanging" /\ ~stopClosed

\* C6 as stated: after every successful exchange the scheduled refresh time
\* is the expiry time of the token minus 60 seconds, and it strictly
\* precedes the expiry time.
C6_RefreshAtIsExpiryMinus60 ==
    \A w \in Callers : refPc[w] = "log" =>
        /\ refreshesAt = resp[w].ExpiresAt - 60
        /\ refreshesAt < resp[w].ExpiresAt

\* C6 as amended: the refresh time stored for a successful exchange is the
\* time of the store plus (refresh_in - 60) seconds, 60 seconds before the
\* refresh time the endpoint advises (now + refresh_in); expires_at plays no
\* part, so the refresh time is 60 seconds or more before the expiry time
\* whenever expires_at is no earlier than now + refresh_in.
C6_RefreshAtIsRefreshInMinus60 ==
    [][ \A w \in Callers :
          (refPc[w] = "storeLen" /\ refPc'[w] = "log") =>
             /\ refreshesAt' = now + resp[w].RefreshIn - 60
             /\ refreshesAt' < now + resp[w].RefreshIn
             /\ resp[w].ExpiresAt >= now + resp[w].RefreshIn
                  => refreshesAt' <= resp[w].ExpiresAt - 60
      ]_vars

\* witness of C6: a successful exchange with refresh_in = 120 and the
\* documented lifetime has been stored: the refresh is due 60 seconds
\* later, which is not the expiry time minus 60 seconds
C6_Witness ==
    \E w \in Callers :
        /\ refPc[w] = "log"
        /\ resp[w].RefreshIn = 120
        /\ refreshesAt = now + 60
        /\ resp[w].ExpiresAt = now + TokenLifetime

\* C7 (scenario: constructed with refresh_in = 120, the clock starting at
\* the construction): the refresh time is 60; the loop issues no exchange
\* before the clock has reached 60; and exactly one refresh exchange fires
\* at clock 60: an exchange of the loop that is under way at clock 60 is
\* the loop's first (no refresh of the loop has completed before it, which
\* could only have been another exchange at clock 60).
C7_OneRefreshAt60 ==
    /\ (mainPc = "serving" /\ loopErr = "none"
           /\ refPc["loop"] \in {"idle", "exchanging", "lock"})
         => refreshesAt = 60
    /\ (loopPc = "refresh" \/ loopErr # "none") => now >= 60
    /\ (now = 60 /\ loopPc = "refresh") => loopErr = "none"

\* C8: a GetToken call that returns while a swap is pending (a refresh is
\* waiting for the exclusive lock) returns the complete old token or the
\* complete new token, and never an empty, partial or mixed value.
C8_ConcurrentReadCompleteNonEmpty ==
    [][ \A r \in Readers : \A w \in Callers :
          (rpc[r] = "half" /\ rpc'[r] = "returned" /\ refPc[w] = "lock") =>
             /\ got'[r] \in {copilotToken, GoString(resp[w].Token)}
             /\ Complete(got'[r])
             /\ got'[r] # GoString("")
      ]_vars

\* The part of C8 that does not depend on the tokens being non-empty:
\* every value GetToken returns is a complete string, the one stored at the
\* moment of the return, and while a reader holds the shared lock the
\* stored header is complete.
AtomicReads ==
    /\ \A r \in Readers : rpc[r] = "returned" => Complete(got[r])
    /\ \A r \in Readers : rpc[r] = "half" =>
          (Complete(copilotToken) /\ got[r].data = copilotToken.data)

\* C9: at most one exchange of the manager is in flight at any time, and
\* the loop does not exist before the initial exchange and the
\* constructor's refresh have completed.
C9_OneExchangeInFlight ==
    /\ Cardinality(InFlight) <= 1
    /\ loopPc # "none" => refPc["ctor"] = "idle"
    /\ refPc["ctor"] # "idle" => refPc["loop"] = "idle"

\* witness of C9: an exchange of the loop is in flight
C9_Witness ==
    refPc["loop"] = "exchanging" /\ refPc["ctor"] = "idle" /\ loopErr = "nil"

\* C10: once Close has been called the loop eventually reaches its stopped
\* state, under the fairness of FairSpec, which does not make the clock
\* advance: the loop stops without the scheduled refresh time arriving.
C10_CloseStopsLoop == stopClosed ~> (loopPc = "stopped")

\* witness of C10: the loop has stopped after Close although the refresh
\* time lies in the future
C10_Witness ==
    stopClosed /\ loopPc = "stopped" /\ refreshesAt > now

\* C11: Close leaves the stored token and the refresh time unchanged, and a
\* GetToken call that returns after Close returns the stored token, the
\* value of the last successful exchange, which is never the empty string.
C11_CloseKeepsToken ==
    [][ /\ (~stopClosed /\ stopClosed')
           => (copilotToken' = copilotToken /\ refreshesAt' = refreshesAt)
        /\ \A r \in Readers :
             (stopClosed /\ rpc[r] = "half" /\ rpc'[r] = "returned")
                => (got'[r] = copilotToken /\ got'[r] # GoString(""))
      ]_vars

\* The part of C11 that does not depend on the tokens being non-empty:
\* Close changes nothing but the stop channel, a GetToken call that returns
\* after Close returns the stored token, and after Close the stored token
\* changes only by a refresh storing the token of its successful exchange.
CloseFrame ==
    [][ /\ (~stopClosed /\ stopClosed')
           => (copilotToken' = copilotToken /\ refreshesAt' = refreshesAt)
        /\ \A r \in Readers :
             (stopClosed /\ rpc[r] = "half" /\ rpc'[r] = "returned")
                => got'[r] = copilotToken
        /\ (stopClosed /\ copilotToken' # copilotToken)
             => \E c \in Callers :
                  /\ writer' = c
                  /\ copilotToken'.data = resp[c].Token
                  /\ Complete(copilotToken') => copilotToken' = GoString(resp[c].Token)
      ]_vars

\* C12: while an exchange of the refresh loop is in flight nobody holds or
\* waits for the exclusive lock, so that every GetToken call can proceed:
\* a caller can take the shared lock at once, and a caller that holds it
\* can return; no step changes the stored token until the exchange has
\* returned, whether it succeeds or fails; and a GetToken call that
\* returns meanwhile returns the stored (stale) token, complete, with which
\* the forward goes on.
C12_RefreshNeverBlocksReaders ==
    /\ [](refPc["loop"] = "exchanging" =>
            /\ writer = "none"
            /\ ~WriterWaiting
            /\ \A r \in Readers :
                 /\ rpc[r] # "half" => ENABLED GetTokenRLock(r)
                 /\ rpc[r] = "half" => ENABLED GetTokenReturn(r))
    /\ [][ refPc["loop"] = "exchanging" =>
             /\ copilotToken' = copilotToken
             /\ \A r \in Readers :
                  (rpc[r] = "half" /\ rpc'[r] = "returned")
                     => (got'[r] = copilotToken /\ Complete(got'[r]))
         ]_vars

\* witness of C12: a GetToken call is under way while an exchange of the
\* loop is in flight, after a failed one
C12_Witness ==
    /\ refPc["loop"] = "exchanging"
    /\ loopErr = "err"
    /\ \E r \in Readers : rpc[r] = "half"

\* C13: every forward makes a GetToken call of its own (when it starts it
\* is not in possession of a token); the value that call returns is the
\* complete token stored at the moment of the return, which lies within
\* the forward, so it is the token of the last swap completed by then and
\* not an older one; and the request is sent with the single Authorization
\* value "Bearer " + that value.
C13_TokenReadAtSendTime ==
    [][ /\ (hpc = "idle" /\ hpc' = "getToken") => rpc'[HandlerReader] = "idle"
        /\ (hpc = "getToken" /\ rpc[HandlerReader] # "returned"
              /\ rpc'[HandlerReader] = "returned")
             => (got'[HandlerReader] = copilotToken
                 /\ Complete(got'[HandlerReader]))
        /\ (hpc = "getToken" /\ rpc[HandlerReader] = "returned")
             => got'[HandlerReader] = got[HandlerReader]
        /\ (hpc = "getToken" /\ hpc' = "do")
             => /\ rpc[HandlerReader] = "returned"
                /\ upstreamReq'.Header["Authorization"] =
                      <<"Bearer " \o got[HandlerReader].data>>
      ]_vars

\* witness of C13: after a swap by the refresh loop a request is on its way
\* upstream with the token of that swap, its own Authorization replaced
C13_Witness ==
    /\ hpc = "do"
    /\ loopErr = "nil"
    /\ copilotToken = GoString("bb")
    /\ upstreamReq.Header["Authorization"] = <<"Bearer bb">>
    /\ "Authorization" \in DOMAIN incomingReq.Header

\* the canonical keys of the headers the proxy sets itself
ProxyHeaderKeys ==
    {"Authorization"} \cup
    {CanonicalMIMEHeaderKey(FixedHeaders[i][1]) : i \in DOMAIN FixedHeaders}

\* C14: in the request handed to httpClient.Do the Authorization header and
\* each fixed client-identification header holds exactly one value, the
\* proxy's own (for Authorization "Bearer " + the token, for the others
\* the fixed value of the source); no value the client supplied under one
\* of these keys is among them; every other inbound header is there with
\* all its values in their order; and there are no further headers.
C14_UpstreamHeaders ==
    hpc = "do" =>
      LET inbound == incomingReq.Header
          upstream == upstreamReq.Header
      IN /\ upstream["Authorization"] =
               <<"Bearer " \o StringOf(got[HandlerReader])>>
         /\ \A i \in DOMAIN FixedHeaders :
              upstream[CanonicalMIMEHeaderKey(FixedHeaders[i][1])] =
                 <<FixedHeaders[i][2]>>
         /\ \A k \in ProxyHeaderKeys \cap DOMAIN inbound :
              \A i \in DOMAIN inbound[k] : \A j \in DOMAIN upstream[k] :
                 upstream[k][j] # inbound[k][i]
         /\ \A k \in DOMAIN inbound \ ProxyHeaderKeys : upstream[k] = inbound[k]
         /\ DOMAIN upstream = DOMAIN inbound \cup ProxyHeaderKeys

\* witness of C14: a request of a client that supplied two Authorization
\* values, two identification headers and a header of its own with two
\* values is on its way upstream
C14_Witness ==
    /\ hpc = "do"
    /\ {"Authorization", "Editor-Version", "User-Agent", "X-Custom"}
          \subseteq DOMAIN incomingReq.Header
    /\ Len(incomingReq.Header["Authorization"]) = 2
    /\ upstreamReq.Header["X-Custom"] = <<"1", "2">>
    /\ upstreamReq.Header["User-Agent"] = <<"GitHubCopilotChat/0.26.7">>

\* the upstream path ForwardRequest is to produce for an inbound path
AliasPath(path) ==
    IF path = <<"/v1/chat/completions">> THEN <<"/chat/completions">> ELSE path

\* C15: every request ForwardRequest is called with is sent upstream (the
\* only error it returns is that of the upstream call), to the path
\* /chat/completions when the inbound path is /v1/chat/completions and to
\* the inbound path itself otherwise, over https, to the fixed host and
\* with the inbound method.
C15_PathMapping ==
    /\ (hpc = "returned" /\ result.err # "nil") => result.err = "do"
    /\ hpc = "do" =>
         /\ upstreamReq.URL.Path = AliasPath(incomingReq.URL.Path)
         /\ upstreamReq.URL.Scheme = "https"
         /\ upstreamReq.URL.Host = copilotAPIHost
         /\ upstreamReq.Host = copilotAPIHost
         /\ upstreamReq.Method = incomingReq.Method

\* The part of C15 that holds: the scheme, the host and the method of every
\* upstream request, and the path mapping for the inbound paths in which
\* no "?", "#" or "%" occurs.
PlainPathMapping ==
    /\ (hpc = "returned" /\ result.err # "nil"
          /\ \A i \in DOMAIN incomingReq.URL.Path :
                incomingReq.URL.Path[i] \notin {"?", "#", "%zz"})
         => result.err = "do"
    /\ hpc = "do" =>
         /\ upstreamReq.URL.Scheme = "https"
         /\ upstreamReq.URL.Host = copilotAPIHost
         /\ upstreamReq.Host = copilotAPIHost
         /\ upstreamReq.Method = incomingReq.Method
         /\ (\A i \in DOMAIN incomingReq.URL.Path :
                incomingReq.URL.Path[i] \notin {"?", "#", "%zz"})
              => upstreamReq.URL.Path = AliasPath(incomingReq.URL.Path)

\* the handler has dealt with an upstream response whose status is not a
\* 2xx status
NonSuccessHandled ==
    /\ hpc = "done"
    /\ result.err = "nil"
    /\ result.resp.StatusCode \notin 200..299

\* C16 as stated: the handler answers an upstream response whose status is
\* not a 2xx status with the upstream's status and the upstream's body
\* bytes, never with an error response of its own.
C16_NonSuccessPassedThrough ==
    NonSuccessHandled =>
       /\ respWriter.status = result.resp.StatusCode
       /\ Written(respWriter.events) = result.resp.Body.data

\* C16 as amended: when the body of an upstream response whose status is
\* not a 2xx status has been read to its end, the handler writes the
\* upstream's status and the upstream's body bytes, unchanged; when reading
\* the body fails, it answers 502 with a message of its own and none of
\* the upstream's bytes.
C16_NonSuccessPassedThroughIfRead ==
    NonSuccessHandled =>
       IF result.resp.Body.end = "EOF"
         THEN /\ respWriter.status = result.resp.StatusCode
              /\ Written(respWriter.events) = result.resp.Body.data
         ELSE /\ respWriter.status = StatusBadGateway
              /\ Written(respWriter.events) =
                    <<"Failed to read upstream error response", "\n">>

\* witness of C16: an upstream 404 with a body of two bytes has been passed
\* through
C16_Witness ==
    /\ NonSuccessHandled
    /\ result.resp.StatusCode = 404
    /\ result.resp.Body = [data |-> <<"x", "y">>, pos |-> 2, end |-> "EOF"]
    /\ respWriter.status = 404
    /\ Written(respWriter.events) = <<"x", "y">>

\* C17: when ForwardRequest returns an error, the handler answers that
\* request with status 502 and its own message and nothing else (no byte
\* of an upstream response, no flush), and it is done with the request; the
\* handler that is done returns, the process keeps serving, and the idle
\* handler goroutine can take the next request.
C17_ForwardFailureIs502 ==
    /\ (hpc = "done" /\ result.err \notin {"nil", "none"}) =>
          /\ respWriter.status = StatusBadGateway
          /\ respWriter.events =
                << [op |-> "write", bytes |-> <<ForwardFailedMessage, "\n">>] >>
          /\ result.resp = NoResponse
    /\ hpc = "done" => ENABLED HandlerReturn
    /\ mainPc = "serving"
    /\ hpc = "idle" =>
          \A req \in RelayRequests :
             \/ ENABLED modelsHandler(req, TRUE)
             \/ ENABLED proxyHandler(req, TRUE)

\* witness of C17: the upstream call of a request has failed and the
\* request has been answered with 502, after an earlier request had been
\* forwarded (the handler holds the token of that earlier GetToken call,
\* and the request at hand was refused before its own)
C17_Witness ==
    /\ hpc = "done"
    /\ result.err = "invalid URL escape"
    /\ respWriter.status = StatusBadGateway
    /\ got[HandlerReader] # NoValue

\* StreamResponse is in its streaming loop, or has left it: the upstream
\* status was 200 and the destination is an http.Flusher
InStreamLoop ==
    /\ hpc \in {"read", "write", "flush", "done"}
    /\ result.err = "nil"
    /\ result.resp.StatusCode = StatusOK
    /\ respWriter.flusher

\* C18: on the streaming path, what has been done to the body of the
\* response is a strict alternation write, flush, write, flush, ...; every
\* chunk a Read returned is written by one Write, with its bytes, and
\* flushed by one Flush before the next Read (a flush is pending only
\* between a Write and the Flush that follows it); as long as no Write has
\* failed the bytes written are the bytes read, in order; and when the
\* loop has ended without a failed Write, all bytes of the body have been
\* written, by as many writes as flushes, each write carrying one
\* non-empty chunk of at most the buffer size.
C18_WriteFlushAlternate ==
    /\ [](InStreamLoop =>
           LET ev == respWriter.events IN
             /\ \A i \in DOMAIN ev :
                  ev[i].op = IF i % 2 = 1 THEN "write" ELSE "flush"
             /\ hpc \in {"read", "write"} => Len(ev) % 2 = 0
             /\ hpc = "flush" => Len(ev) % 2 = 1
             /\ ~respWriter.broken =>
                  /\ Written(ev) \o (IF hpc = "write" THEN local.buf ELSE <<>>)
                        = SubSeq(result.resp.Body.data, 1, result.resp.Body.pos)
                  /\ \A i \in DOMAIN ev :
                       ev[i].op = "write" =>
                          (ev[i].bytes # <<>> /\ Len(ev[i].bytes) <= BufSize)
                  /\ hpc = "done" =>
                       /\ Written(ev) = result.resp.Body.data
                       /\ Len(ev) % 2 = 0)
    /\ [][ InStreamLoop =>
             /\ (hpc = "read" /\ hpc' = "write")
                  => (local'.buf # <<>> /\ respWriter' = respWriter)
             /\ (hpc = "write" /\ hpc' = "flush")
                  => respWriter'.events =
                        Append(respWriter.events,
                               [op |-> "write", bytes |-> local.buf])
             /\ (hpc = "flush" /\ hpc' # "flush")
                  => respWriter'.events =
                        Append(respWriter.events,
                               [op |-> "flush", bytes |-> <<>>])
         ]_vars

\* witness of C18: a body of three bytes has been relayed in two chunks:
\* two writes, each followed by its flush
C18_Witness ==
    /\ InStreamLoop
    /\ hpc = "done"
    /\ ~respWriter.broken
    /\ Len(result.resp.Body.data) = 3
    /\ Len(respWriter.events) = 4
    /\ Written(respWriter.events) = result.resp.Body.data

\* StreamResponse has been called and has written the header part: the
\* upstream status was 200
InStreamResponse ==
    /\ hpc \in {"read", "write", "flush", "copy", "done"}
    /\ result.err = "nil"
    /\ result.resp.StatusCode = StatusOK

\* C19: when the handler calls StreamResponse nothing has been sent to the
\* client; and from the moment StreamResponse turns to the body, on the
\* streaming path and on the fallback path alike, the status sent is the
\* upstream status and the headers sent are the upstream headers, every
\* key with all its values in their order.  (The first WriteHeader fixes
\* what is sent, so both were sent before the first byte of the body.)
C19_HeadersBeforeBody ==
    /\ hpc = "returned" =>
          (~respWriter.wroteHeader /\ respWriter.events = <<>>)
    /\ InStreamResponse =>
          /\ respWriter.wroteHeader
          /\ respWriter.status = result.resp.StatusCode
          /\ respWriter.sent = result.resp.Header
          /\ (hpc \in {"read", "copy"} /\ result.resp.Body.pos = 0)
                => respWriter.events = <<>>

\* witness of C19: on the fallback path the status and a header with two
\* values have been sent, and nothing of the body yet
C19_Witness ==
    /\ InStreamResponse
    /\ hpc = "copy"
    /\ result.resp.Body.data # <<>>
    /\ respWriter.events = <<>>
    /\ respWriter.status = StatusOK
    /\ "Set-Cookie" \in DOMAIN respWriter.sent
    /\ respWriter.sent["Set-Cookie"] = <<"a=1", "b=2">>

\* StreamResponse is on its fallback path: the upstream status was 200 and
\* the destination is no http.Flusher
OnFallback ==
    /\ hpc \in {"copy", "done"}
    /\ result.err = "nil"
    /\ result.resp.StatusCode = StatusOK
    /\ ~respWriter.flusher

\* C20: on the fallback path nothing of the body is written before the
\* bulk copy, no flush is ever issued, and when the copy has ended without
\* a failed write the bytes written are all the bytes of the upstream
\* body, in order, written by the one copy.
C20_FallbackBulkCopy ==
    OnFallback =>
       LET ev == respWriter.events IN
         /\ \A i \in DOMAIN ev : ev[i].op # "flush"
         /\ hpc = "copy" => (ev = <<>> /\ result.resp.Body.pos = 0)
         /\ (hpc = "done" /\ ~respWriter.broken) =>
               /\ Written(ev) = result.resp.Body.data
               /\ result.resp.Body.pos = Len(result.resp.Body.data)
               /\ Len(ev) <= 1

\* witness of C20: a body of three bytes has been delivered by the bulk
\* copy
C20_Witness ==
    /\ OnFallback
    /\ hpc = "done"
    /\ ~respWriter.broken
    /\ Len(result.resp.Body.data) = 3
    /\ Written(respWriter.events) = result.resp.Body.data

\* s is a prefix of t
IsPrefix(s, t) == Len(s) <= Len(t) /\ s = SubSeq(t, 1, Len(s))

\* C21: in the streaming loop the bytes the client has received are at
\* every point a prefix of the upstream body, and no step takes any of them
\* back or changes them; after a failed Write the loop has ended, with
\* nothing read or written since; once a Read has reported the end of the
\* body (io.EOF or an error) no further Read is made, the bytes that Read
\* returned are written and flushed, and the loop ends; the loop ends for
\* no other reason than a failed Write or the end of the body; and when it
\* has ended on io.EOF without a failed Write the client has the whole body.
C21_StopsAtFirstError ==
    /\ [](InStreamLoop =>
           LET ev == respWriter.events
               body == result.resp.Body IN
             /\ IsPrefix(Written(ev), body.data)
             /\ respWriter.broken => hpc = "done"
             /\ local.err # "nil" =>
                  /\ hpc \in {"write", "flush", "done"}
                  /\ local.err = body.end
                  /\ Unread(body) = <<>>
             /\ hpc = "done" => (respWriter.broken \/ local.err # "nil")
             /\ (hpc = "done" /\ ~respWriter.broken /\ local.err = "EOF") =>
                  Written(ev) = body.data)
    /\ [][ (InStreamLoop /\ InStreamLoop') =>
             /\ IsPrefix(Written(respWriter.events), Written(respWriter'.events))
             /\ result'.resp.Body.data = result.resp.Body.data
             /\ IsPrefix(respWriter.events, respWriter'.events)
             /\ (hpc = "write" /\ hpc' = "done") => respWriter'.broken
             /\ (hpc = "write" /\ local.err # "nil" /\ ~respWriter'.broken) =>
                  /\ hpc' = "flush"
                  /\ Written(respWriter'.events) = result.resp.Body.data
             /\ (hpc = "flush" /\ local.err # "nil") => hpc' = "done"
             /\ hpc = "done" => (respWriter' = respWriter /\ result' = result)
         ]_vars

\* witness of C21: the second byte of the first chunk of a body of three
\* bytes could not be written: the loop has ended, the client has one byte
\* and one byte of the body was never read
C21_Witness ==
    /\ InStreamLoop
    /\ hpc = "done"
    /\ respWriter.broken
    /\ Len(result.resp.Body.data) = 3
    /\ result.resp.Body.pos = 2
    /\ Len(Written(respWriter.events)) = 1

\* C22: when StreamResponse has ended and neither the client has cancelled
\* nor a write to the client nor the upstream body has failed, the client
\* has received the whole upstream body: the client's timeout does not cut
\* off a relay in progress.
C22_RelayUntilEndOfStream ==
    (/\ InStreamResponse
     /\ hpc = "done"
     /\ ~ctx.cancelled
     /\ ~respWriter.broken
     /\ result.resp.Body.end = "EOF")
       => Written(respWriter.events) = result.resp.Body.data

\* the same while the deadline of the client's timeout has not passed
RelayUntilEndOfStreamInTime ==
    (/\ InStreamResponse
     /\ hpc = "done"
     /\ ~ctx.cancelled
     /\ ~respWriter.broken
     /\ result.resp.Body.end = "EOF"
     /\ now < ctx.deadline)
       => Written(respWriter.events) = result.resp.Body.data

\* the client's timeout bounds obtaining the response: when the deadline
\* has passed, a call of httpClient.Do in flight can return the timeout
TimeoutBoundsDo ==
    (hpc = "do" /\ now >= ctx.deadline) => ENABLED DoAborted

\* the steps by which the running request's cancellation takes effect
CancellationStep ==
    \/ CancelRequest
    \/ DoAborted
    \/ PassThroughAborted
    \/ StreamReadAborted
    \/ \E j \in 0..MaxBody, k \in 0..MaxBody : StreamCopyAborted(j, k)

\* C23: once the context of a request is cancelled, every call of that
\* request that waits for the upstream can return the context's error: the
\* call of httpClient.Do, the Read of the streaming loop, the copy of the
\* fallback and the ReadAll of an error body; an upstream call that ended
\* with that error is answered 502 and nothing is relayed, and a relay
\* that met it has ended.  The cancellation changes nothing but the
\* context of its request; neither it nor the steps by which it takes
\* effect change the other request in flight, the stored token, the
\* refresh schedule or any other state of the token manager.
C23_CancelIsLocal ==
    /\ [](ctx.cancelled =>
           /\ hpc = "do" => ENABLED DoAborted
           /\ hpc = "read" => ENABLED StreamReadAborted
           /\ (hpc = "copy" /\ Unread(result.resp.Body) # <<>>)
                => ENABLED StreamCopyAborted(0, 0)
           /\ (hpc = "returned" /\ result.err = "nil"
                 /\ result.resp.StatusCode # StatusOK)
                => ENABLED PassThroughAborted
           /\ (hpc = "done" /\ result.err = "canceled")
                => (respWriter.status = StatusBadGateway
                      /\ Len(respWriter.events) = 1)
           /\ (InStreamResponse /\ local.err = "canceled") => hpc = "done")
    /\ [][CancelRequest =>
             /\ ctx' = [ctx EXCEPT !.cancelled = TRUE]
             /\ UNCHANGED <<hpc, handler, incomingReq, upstreamReq, result,
                            local, respWriter, readerVars>>
         ]_vars
    /\ [][CancellationStep => UNCHANGED <<parked, managerVars>>]_vars

\* witness of C23: of two requests in flight one was cancelled during its
\* upstream call and has been answered 502, and the other, not cancelled,
\* has had its whole body relayed
C23_Witness ==
    /\ parked.ctx.cancelled
    /\ parked.hpc = "done"
    /\ parked.result.err = "canceled"
    /\ parked.respWriter.status = StatusBadGateway
    /\ ~ctx.cancelled
    /\ InStreamLoop
    /\ hpc = "done"
    /\ result.resp.Body.data # <<>>
    /\ Written(respWriter.events) = result.resp.Body.data

\* the steps of the token manager: the constructor, refresh and the loop
ManagerStep ==
    \/ NewTokenManager
    \/ \E c \in Callers, reply \in SwapReplies(now) : ExchangeReturn(c, reply)
    \/ \E c \in Callers : RefreshLock(c)
    \/ \E c \in Callers : StoreTokenLen(c)
    \/ \E c \in Callers : RefreshLogUnlock(c)
    \/ LoopTop
    \/ LoopTimerFire

\* the steps of the running request
RequestStep ==
    \/ \E req \in PairRequests, flusher \in {TRUE} : proxyHandler(req, flusher)
    \/ ForwardGetToken
    \/ GetTokenReturn(HandlerReader)
    \/ ForwardSend
    \/ \E outcome \in SwapOutcomes : DoReturn(outcome)
    \/ HandleResult
    \/ \E n \in 0..BufSize, err \in {"nil", "EOF", "err"} : StreamRead(n, err)
    \/ \E k \in 0..BufSize : StreamWrite(k)
    \/ StreamFlush
    \/ HandlerReturn

\* C24: no step of the token manager, a swap of the token included,
\* changes anything of a request in flight, and no step of a request
\* changes anything of the other request or of the token manager; a
\* request that has read its token is never made to wait by the manager:
\* whatever the refresh is doing, its next step can be taken, up to the
\* end of the relay and the return of the handler; and the Authorization
\* header it was sent with stays the token it read.
C24_SwapLeavesTraffic ==
    /\ [][ManagerStep => UNCHANGED <<proxyVars, readerVars>>]_vars
    /\ [][RequestStep => UNCHANGED <<parked, managerVars>>]_vars
    /\ []((mainPc = "serving" /\ rpc[HandlerReader] = "returned") =>
            /\ hpc = "getToken" => ENABLED ForwardSend
            /\ hpc = "do" => \A outcome \in SwapOutcomes : ENABLED DoReturn(outcome)
            /\ hpc = "returned" => ENABLED HandleResult
            /\ hpc = "read" =>
                 ENABLED StreamRead(Len(Unread(result.resp.Body)),
                                    result.resp.Body.end)
            /\ hpc = "write" => ENABLED StreamWrite(Len(local.buf))
            /\ hpc = "flush" => ENABLED StreamFlush
            /\ hpc = "done" => ENABLED HandlerReturn
            /\ hpc \in {"do", "returned", "read", "write", "flush", "done"} =>
                 upstreamReq.Header["Authorization"]
                    = <<"Bearer " \o got[HandlerReader].data>>)

\* witness of C24: a request that was sent with the token "a" has been
\* relayed to its end while the token was swapped for "bb" and a second
\* request was in its upstream call
C24_Witness ==
    /\ InStreamLoop
    /\ hpc = "done"
    /\ result.resp.Body.data # <<>>
    /\ Written(respWriter.events) = result.resp.Body.data
    /\ upstreamReq.Header["Authorization"] = <<"Bearer a">>
    /\ copilotToken = GoString("bb")
    /\ parked.hpc = "do"

\* the answer "authorization_pending"
IsPending(answer) ==
    /\ ~answer.transportErr
    /\ answer.decodable
    /\ answer.body.Error = "authorization_pending"
\* a success answer: no error and an access token
IsSuccess(answer) ==
    /\ ~answer.transportErr
    /\ answer.decodable
    /\ answer.body.Error = ""
    /\ answer.body.AccessToken # ""
\* the answers so far are k >= 0 times pending and then a success
PendingThenSuccess ==
    /\ poll.log # <<>>
    /\ \A i \in 1..(Len(poll.log) - 1) : IsPending(poll.log[i].answer)
    /\ IsSuccess(poll.log[Len(poll.log)].answer)

\* C25: when the answers were k times pending and then a success, the call
\* has returned the access token of the success answer and no error, after
\* the k+1 poll requests of the log, and nothing happens any more: no
\* further poll and no second return; a credential is returned for a
\* success answer only; and every poll request, the first included, went
\* out after a wait of the interval of the device code, on a timer armed
\* after the call and after the poll before.
C25_PollUntilSuccess ==
    /\ [](PendingThenSuccess =>
            /\ poll.pc = "returned"
            /\ poll.ret = [token |-> poll.log[Len(poll.log)].answer.body.AccessToken,
                           err |-> "nil"])
    /\ [][PendingThenSuccess => poll' = poll]_vars
    /\ []((poll.pc = "returned" /\ poll.ret.err = "nil") =>
            /\ poll.log # <<>>
            /\ IsSuccess(poll.log[Len(poll.log)].answer)
            /\ poll.ret.token = poll.log[Len(poll.log)].answer.body.AccessToken)
    /\ [](\A i \in DOMAIN poll.log :
            /\ poll.log[i].wait = poll.interval
            /\ poll.log[i].armedAt >= 0
            /\ poll.log[i].at >= poll.log[i].armedAt + poll.interval
            /\ i > 1 => poll.log[i].armedAt >= poll.log[i - 1].at)

\* witness of C25: pending, pending, success with an interval of 5 seconds:
\* three poll requests, and the token of the third answer returned
C25_Witness ==
    /\ poll.pc = "returned"
    /\ poll.interval = 5
    /\ Len(poll.log) = 3
    /\ PendingThenSuccess
    /\ poll.ret = [token |-> "gho_1", err |-> "nil"]

\* the answer "expired_token"
IsExpired(answer) ==
    /\ ~answer.transportErr
    /\ answer.decodable
    /\ answer.body.Error = "expired_token"

\* C26: when a poll has been answered with expired_token, whatever the
\* answers before it, the call has returned the error "device code
\* expired" and no credential, that poll is the last one, and nothing
\* happens any more.
C26_ExpiredEndsPolling ==
    /\ []((\E i \in DOMAIN poll.log : IsExpired(poll.log[i].answer)) =>
            /\ IsExpired(poll.log[Len(poll.log)].answer)
            /\ poll.pc = "returned"
            /\ poll.ret = [token |-> "", err |-> "device code expired"])
    /\ [][(\E i \in DOMAIN poll.log : IsExpired(poll.log[i].answer))
             => poll' = poll]_vars

\* witness of C26: the third poll, after a pending answer and a transport
\* error, was answered with expired_token
C26_Witness ==
    /\ poll.pc = "returned"
    /\ Len(poll.log) = 3
    /\ IsPending(poll.log[1].answer)
    /\ poll.log[2].answer.transportErr
    /\ IsExpired(poll.log[3].answer)
    /\ poll.ret.err = "device code expired"

\* the answer "slow_down"
IsSlowDown(answer) ==
    /\ ~answer.transportErr
    /\ answer.decodable
    /\ answer.body.Error = "slow_down"

\* C27: the wait before every poll that follows a poll answered with
\* slow_down is strictly longer than the wait that preceded that poll.
C27_SlowDownIncreasesInterval ==
    \A i \in DOMAIN poll.log, j \in DOMAIN poll.log :
        (i < j /\ IsSlowDown(poll.log[i].answer))
           => poll.log[j].wait > poll.log[i].wait

\* what the code does instead: the wait before every poll is the interval
\* of the device code, slow_down or not
IntervalNeverChanges ==
    \A i \in DOMAIN poll.log : poll.log[i].wait = poll.interval

\* C28: while the call waits with its context cancelled it can return at
\* once, whether the timer has fired or not, and as long as the timer has
\* not fired the return of the cancellation is the only thing it does; it
\* returns the error of the context and no credential; and a poll request
\* that went out after the cancellation gets no answer but the error of
\* the context, so that a credential is returned only for a poll that had
\* started before.
C28_CancelAbortsWait ==
    /\ []((poll.pc = "select" /\ poll.cancelled) => ENABLED PollCancelled)
    /\ [][(poll.pc = "select" /\ poll.cancelled /\ now < poll.timerAt
             /\ poll' # poll)
            => (poll'.pc = "returned"
                  /\ poll'.ret = [token |-> "", err |-> "canceled"]
                  /\ poll'.log = poll.log
                  /\ now' = now)]_vars
    /\ [](poll.ret.err = "canceled" => (poll.ret.token = "" /\ poll.cancelled))
    /\ [](\A i \in DOMAIN poll.log :
            poll.log[i].afterCancel =>
               (poll.log[i].answer = NoAnswer \/ poll.log[i].answer.transportErr))
    /\ []((poll.pc = "returned" /\ poll.ret.token # "") =>
            ~poll.log[Len(poll.log)].afterCancel)

\* witness of C28: the context was cancelled during the wait that followed
\* a pending answer, and the call has returned the cancellation before the
\* 5 seconds of the interval were over
C28_Witness ==
    /\ poll.pc = "returned"
    /\ poll.ret = [token |-> "", err |-> "canceled"]
    /\ poll.interval = 5
    /\ Len(poll.log) = 1
    /\ IsPending(poll.log[1].answer)
    /\ ~poll.log[1].afterCancel
    /\ now < poll.timerAt

\* the reply is a success: status 200 and a body that can be decoded
IsTokenReply(reply) ==
    /\ ~reply.transportErr
    /\ reply.status = StatusOK
    /\ reply.decodable

\* C29: a call of ExchangeGitHubToken ends with the one reply to its one
\* request.  A transport error, a status other than 200 and a body that
\* cannot be decoded each end the call with an error and without a token
\* response: refresh returns, nothing of the manager is touched, and no
\* second request is made by that call.  A 200 with a decodable body ends
\* it with the decoded token response and no error, and is the only reply
\* that does.
C29_ExchangeOnce ==
    /\ [](\A reply \in Replies(now) :
            /\ (ExchangeGitHubToken(reply).err = "nil") <=> IsTokenReply(reply)
            /\ IsTokenReply(reply) => ExchangeGitHubToken(reply).resp = reply.body
            /\ ~IsTokenReply(reply) => ExchangeGitHubToken(reply).resp = NoResp)
    /\ [][\A who \in Callers, reply \in Replies(now) :
            ExchangeReturn(who, reply) =>
               IF IsTokenReply(reply)
                 THEN /\ refPc'[who] = "lock"
                      /\ resp'[who] = reply.body
                 ELSE /\ refPc'[who] = "idle"
                      /\ resp'[who] = NoResp
                      /\ UNCHANGED tmVars
                      /\ who = "loop" => loopErr' = "err"
                      /\ who = "ctor" => mainPc' = "failed"
         ]_vars
    /\ [](\A who \in Callers :
            /\ refPc[who] \in {"idle", "exchanging"} => resp[who] = NoResp
            /\ refPc[who] = "lock" =>
                 \E reply \in Replies(now) :
                    IsTokenReply(reply) /\ resp[who].Token = reply.body.Token)

\* witness of C29: an exchange of the loop has failed, and its next one
\* has returned a token response
C29_Witness ==
    /\ loopErr = "err"
    /\ refPc["loop"] = "lock"
    /\ resp["loop"].Token = "bb"
    /\ resp["loop"].RefreshIn = 120

\* the two inbound paths of the model listing
ModelsPaths == {<<"/v1/models">>, <<"/models">>}

\* what a handler has answered when it is done, as a function of what
\* ForwardRequest returned: 502 for an error; for a status other than 200
\* that status and the body, without headers (502 when the body could not
\* be read); for a 200 the upstream status and headers and the body, all
\* of it unless a write to the client failed
ResponseHandling ==
    hpc = "done" =>
      LET rw == respWriter
          up == result.resp IN
        /\ result.err \notin {"nil", "none"} =>
             (rw.status = StatusBadGateway /\ Len(rw.events) = 1)
        /\ (result.err = "nil" /\ up.StatusCode # StatusOK) =>
             IF up.Body.end = "EOF"
               THEN /\ rw.status = up.StatusCode
                    /\ rw.sent = EmptyHeader
                    /\ rw.events = <<[op |-> "write", bytes |-> up.Body.data]>>
               ELSE rw.status = StatusBadGateway /\ Len(rw.events) = 1
        /\ (result.err = "nil" /\ up.StatusCode = StatusOK) =>
             /\ rw.status = StatusOK
             /\ rw.sent = up.Header
             /\ IsPrefix(Written(rw.events), up.Body.data)
             /\ ~rw.broken => Written(rw.events) = up.Body.data
             /\ \A i \in DOMAIN rw.events :
                  rw.events[i].op = "flush" => rw.flusher

\* C30: a request to /v1/models or to /models is handled by modelsHandler
\* and by no other handler; its upstream request goes to https, the fixed
\* host and the path /models, with the inbound method and, as every
\* upstream request, without the inbound query; it carries
\* "Bearer " + the token GetToken returned for it as its one Authorization
\* value and the fixed headers; and its answer is handled as that of any
\* proxied request (ResponseHandling holds of both handlers).
C30_ModelsAlias ==
    /\ [][\A req \in ModelsRequests, flusher \in BOOLEAN :
            /\ modelsHandler(req, flusher) =>
                 /\ req.URL.Path \in ModelsPaths
                 /\ hpc' = "getToken"
                 /\ upstreamReq'.Method = req.Method
                 /\ upstreamReq'.Host = copilotAPIHost
                 /\ upstreamReq'.URL = [Scheme |-> "https",
                                        Host |-> copilotAPIHost,
                                        Path |-> <<"/models">>,
                                        RawQuery |-> <<>>]
            /\ proxyHandler(req, flusher) => req.URL.Path \notin ModelsPaths
         ]_vars
    /\ []((mainPc = "serving" /\ hpc = "idle") =>
            \A req \in ModelsRequests :
               req.URL.Path \in ModelsPaths => ENABLED modelsHandler(req, TRUE))
    /\ [](handler = "models" =>
            /\ hpc \in {"do", "returned", "read", "write", "flush", "copy", "done"} =>
                 /\ upstreamReq.URL.Path = <<"/models">>
                 /\ upstreamReq.Header["Authorization"] =
                       <<"Bearer " \o StringOf(got[HandlerReader])>>
                 /\ \A i \in DOMAIN FixedHeaders :
                      upstreamReq.Header[CanonicalMIMEHeaderKey(FixedHeaders[i][1])]
                         = <<FixedHeaders[i][2]>>
                 /\ \A k \in DOMAIN incomingReq.Header \ ProxyHeaderKeys :
                      upstreamReq.Header[k] = incomingReq.Header[k]
            /\ ResponseHandling)
    /\ [](handler = "proxy" => ResponseHandling)

\* witness of C30: a GET of the model listing has been answered upstream with
\* 200 and a body of three bytes, which modelsHandler has relayed
C30_Witness ==
    /\ handler = "models"
    /\ hpc = "done"
    /\ incomingReq.Method = "GET"
    /\ "Authorization" \in DOMAIN incomingReq.Header
    /\ upstreamReq.URL.Path = <<"/models">>
    /\ result.err = "nil"
    /\ result.resp.StatusCode = StatusOK
    /\ Len(result.resp.Body.data) = 3
    /\ Written(respWriter.events) = result.resp.Body.data


\* C33: whoever holds the exclusive lock of the manager is at the
\* assignment of the token and the refresh time and nowhere else: between
\* tm.mu.Lock() and tm.mu.Unlock() there is no exchange and no other I/O,
\* log output included.
C33_LockHolderOnlyAssigns ==
    \A w \in Callers : writer = w => refPc[w] = "storeLen"

\* The part of C33 about the network: the holder of the exclusive lock has
\* its exchange behind it, and while it holds the lock no exchange is in
\* flight.
NoExchangeUnderLock ==
    writer # "none" => (refPc[writer] \in {"storeLen", "log"} /\ InFlight = {})

\* C34: once Close has been called the stored token does not change any
\* more and the loop starts no exchange: no step taken with the stop
\* channel closed changes tm.copilotToken or puts an exchange of the loop
\* in flight.
C34_ClosedMeansFrozen ==
    [][stopClosed =>
         /\ copilotToken' = copilotToken
         /\ refPc'["loop"] = "exchanging" => refPc["loop"] = "exchanging"
      ]_vars

\* C36: the duration the loop hands to time.After after the constructor's
\* refresh or after a successful refresh of its own is strictly positive,
\* whatever refresh_in the exchange returned.
C36_PositiveWaitAfterSuccess ==
    (loopPc = "select" /\ loopErr # "err") => duration > 0


\* the poll request of a log entry has been answered
IsAnswered(answer) == answer # NoAnswer

\* C37: a poll answered with anything other than authorization_pending or
\* slow_down ends the call: it is the last poll, the call has returned,
\* and unless the answer was a success it has returned an error.  This
\* covers access_denied, a transport error, an undecodable body and a body
\* with neither error nor access token.
C37_TerminalAnswerEndsPolling ==
    \A i \in 1..Len(poll.log) :
       LET answer == poll.log[i].answer IN
         (IsAnswered(answer) /\ ~IsPending(answer) /\ ~IsSlowDown(answer)) =>
            /\ i = Len(poll.log)
            /\ poll.pc = "returned"
            /\ ~IsSuccess(answer) => poll.ret.err \notin {"nil", "none"}


\* C38: whatever the status of an upstream response, when the handler is
\* done with it the client has been sent the upstream status and all the
\* upstream headers with all their values, and (no write having failed)
\* the upstream body; for a status other than 200 this is said of the
\* responses whose body the handler could read to its end.
C38_HeadersForEveryStatus ==
    (/\ hpc = "done"
     /\ result.err = "nil"
     /\ result.resp.StatusCode # StatusOK => result.resp.Body.end = "EOF") =>
        /\ respWriter.status = result.resp.StatusCode
        /\ respWriter.sent = result.resp.Header
        /\ ~respWriter.broken =>
              (result.resp.Body.end = "EOF" =>
                  Written(respWriter.events) = result.resp.Body.data)

\* The part of C38 about the streaming path: a 200 is sent on with all the
\* upstream headers.
HeadersForStatusOK ==
    (hpc = "done" /\ result.err = "nil" /\ result.resp.StatusCode = StatusOK) =>
        /\ respWriter.status = StatusOK
        /\ respWriter.sent = result.resp.Header


\* the query string of a url.URL as the sequence of atoms of ParseURL
QueryAtoms(rawQuery) == IF rawQuery = "" THEN <<>> ELSE <<rawQuery>>

\* C39: the upstream request ForwardRequest has built has the query of the
\* inbound request, whatever the inbound path.
C39_QueryForwarded ==
    upstreamReq # NoUpstreamRequest =>
       upstreamReq.URL.RawQuery = QueryAtoms(incomingReq.URL.RawQuery)


\* C35: a call of Close on a manager that is closed already does nothing:
\* it does not fault and it changes no state.
C35_CloseIdempotent ==
    [][CloseAgain => UNCHANGED vars]_vars

\* The first part of C35 alone: the process never panics.
NeverPanics == mainPc # "panicked"


\* the server command is run with no credential in the environment and
\* the token file absent or empty when the process starts
ServerWithoutCredential ==
    /\ boot.command = "server"
    /\ boot.env.GITHUB_TOKEN = ""
    /\ boot.env.COPILOT_TOKEN = ""
    /\ boot.file0 \in {"absent", ""}
\* config.Load has returned to runServer
LoadReturned ==
    boot.pc = "configured" \/ (boot.pc = "exit" /\ boot.exit = "config")
\* the device-authorization flow is under way: the device code is being
\* requested or polled for
InDeviceFlow == boot.pc \in {"runAuth", "polling"} \/ poll.pc # "idle"

\* C31 as stated: when the server is started without a credential, then
\* once config.Load has returned the process has not failed and the
\* device-authorization flow is under way.
C31_NoCredentialStartsDeviceFlow ==
    (ServerWithoutCredential /\ LoadReturned) =>
        (boot.pc # "exit" /\ InDeviceFlow)

\* C31 as amended: when the server is started without a credential, the
\* process ends with a failure, in main's EnsurePaths or in runServer's
\* config.Load, before a token manager is constructed, and the device flow
\* is never entered; the device flow is entered by the auth command only.
C31_NoCredentialFailsStart ==
    /\ (ServerWithoutCredential /\ boot.pc \notin {"main", "args", "runServer"}) =>
          /\ boot.pc = "exit"
          /\ boot.exit \in {"paths", "config"}
          /\ mainPc = "start"
    /\ InDeviceFlow => boot.command = "auth"

\* witness of C31: the server command has ended in config.Load, the token
\* file, absent at the start, having been created empty
C31_Witness ==
    /\ ServerWithoutCredential
    /\ boot.file0 = "absent"
    /\ boot.file = ""
    /\ boot.pc = "exit"
    /\ boot.exit = "config"

\* C32: the configuration runServer goes on with has the port of the PORT
\* environment variable, or 9871 when that is not set; and when
\* COPILOT_TOKEN is set, config.Load succeeds with that token.
C32_PortAndTokenFromEnv ==
    /\ boot.pc = "configured" =>
          boot.cfg.Port = (IF boot.env.PORT = "" THEN "9871" ELSE boot.env.PORT)
    /\ (boot.env.COPILOT_TOKEN # "" /\ LoadReturned) =>
          (boot.pc = "configured" /\ boot.cfg.GitHubToken = boot.env.COPILOT_TOKEN)

\* What the code does instead of C32: the port is that of PROXY_PORT, or
\* 8080 when that is not set; the token is that of GITHUB_TOKEN or, when
\* that is not set, the content of the token file, and never empty.
PortAndTokenOfLoad ==
    boot.pc = "configured" =>
       /\ boot.cfg.Port = (IF boot.env.PROXY_PORT = "" THEN "8080"
                           ELSE boot.env.PROXY_PORT)
       /\ boot.cfg.GitHubToken = (IF boot.env.GITHUB_TOKEN # ""
                                    THEN boot.env.GITHUB_TOKEN ELSE boot.file)
       /\ boot.cfg.GitHubToken # ""


\* C40: when Start has returned nil, its context had been cancelled and
\* the shutdown that the cancellation triggered has done its work: no
\* request is being relayed any more, unless the deadline of the shutdown
\* has passed; and whatever Start returns otherwise is the error of the
\* listener.
C40_StartReturnsAfterShutdown ==
    /\ srv.ret = "nil" =>
          /\ srv.ctxDone
          /\ srv.shutdown # "none"
          /\ hpc = "idle" \/ now >= srv.deadline
    /\ (srv.pc = "returned" /\ srv.ret # "nil") => srv.ret = "listen"

\* The parts of C40 that hold: Start returns nil only after its context
\* was cancelled and Shutdown was called, any other return is the error of
\* the listener, and no request is accepted once Shutdown has been called.
StartReturnsAfterCancel ==
    /\ srv.ret = "nil" => (srv.ctxDone /\ srv.shutdown # "none")
    /\ srv.pc = "returned" => srv.ret \in {"nil", "listen"}
    /\ srv.ret = "listen" => hpc = "idle"

=============================================================================
